---- MODULE Spec2Model ----
(***************************************************************************)
(* Model of armi/physics/neutronics/globalFlux/globalFluxInterface.py.     *)
(*                                                                         *)
(* Part 1: the geometry transform pipeline of GlobalFluxExecuter           *)
(* (_performGeometryTransformations / _undoGeometryTransformations), the   *)
(* executers built by GlobalFluxInterfaceUsingExecuters.getExecuter and    *)
(* calculateKeff, and the reactor models they work on.                     *)
(*                                                                         *)
(* The converters (uniformMesh converter, EdgeAssemblyChanger) and        *)
(* DefaultExecuter.run live in other files; what the converter methods and *)
(* the flux solve do to a reactor model follows the design document.  A    *)
(* converter method that raises is modelled as raising before it changes   *)
(* anything.  An executer built by getExecuter applies its results to the  *)
(* reactor; the one calculateKeff builds does not.                         *)
(***************************************************************************)
EXTENDS Integers, Sequences, FiniteSets, TLC

(***************************************************************************)
(* Bounds                                                                  *)
(***************************************************************************)
\* largest parameter value the flux solve writes onto a model
MaxParam == 1
\* largest parameter value a model may hold (symmetry rescaling doubles)
ParamCap == 2
\* largest number of apply calls of one executer without a restore between
MaxStreak == 2

Executers == {"A", "B"}

(***************************************************************************)
(* Option values                                                           *)
(***************************************************************************)
\* neutronics kernel names, as character sequences so that the code's
\* substring test ("FD" in kernelName) is computed, not assumed
DIF3D_FD == <<"D", "I", "F", "3", "D", "-", "F", "D">>
DIF3D_Nodal == <<"D", "I", "F", "3", "D", "-", "N", "o", "d", "a", "l">>
VARIANT == <<"V", "A", "R", "I", "A", "N", "T">>
KernelNames == {DIF3D_FD, DIF3D_Nodal, VARIANT}
\* the kernels of KernelNames that are finite-difference methods
FiniteDifferenceKernels == {DIF3D_FD}

DomainTypes == {"THIRD_CORE", "FULL_CORE"}
BoundaryTypes == {"PERIODIC", "REFLECTIVE"}
GeomTypes == {"HEX", "CARTESIAN"}

NoConverter == [none |-> TRUE]

VARIABLES
    cs,             \* user settings: kernel, detailedAxialExpansion, nonUniformAssemFlags
    core,           \* geometry descriptors of the reactor: symmetry and geomType
    origP,          \* parameters of the caller's original reactor
    origEdge,       \* TRUE iff edge assemblies are present in the original core
    exists,         \* exists[e]: executer e has been constructed
    options,        \* options[e]: the GlobalFluxOptions of executer e
    geomConverters, \* geomConverters[e]: keys of the executer's converter registry
    r,              \* r[e]: the executer's working model, "orig" or "conv"
    conv,           \* conv[e]: the axial converter of e (its convReactor and _sourceReactor)
    streak,         \* streak[e]: apply calls of e since its construction or last restore
    lastCall,       \* the most recent call: executer, operation, outcome, converter calls
    afterRestore    \* the executer whose completed restore was the call before lastCall

geomVars == <<cs, core, origP, origEdge, exists, options, geomConverters, r,
              conv, streak, lastCall, afterRestore>>

\* Parts 2 to 4 (further down): computeDpaRate, calcReactionRates and the
\* dose engine (updateDpaRate, updateFluenceAndDpa and the interface hooks)
VARIABLES
    dpaCall,        \* a call of computeDpaRate: its arguments and its result
    rxCall,         \* a call of calcReactionRates: the object, keff, and the rates stored
    doseCs,         \* settings and options the dose engine reads
    blocks,         \* blocks[b]: the parameters of block b
    assems,         \* assems[a]: the parameters of assembly a
    coreP,          \* parameters of the reactor and its core (cycle, timeNode, summaries)
    doseLast,       \* the most recent dose-engine call and what it did
    iface,          \* the fields of the GlobalFluxInterface object (_bocKeff)
    opPhase,        \* where the caller of the interface hooks is in its loop
    balCall         \* a call of checkEnergyBalance: the powers and the outcome

dpaVars == <<dpaCall>>
rxVars == <<rxCall>>
doseVars == <<doseCs, blocks, assems, coreP, doseLast, iface>>
balVars == <<balCall>>

\* the value of the variables of a part that is not exercised
Unused == [unused |-> TRUE]
GeomUnused ==
    /\ cs = Unused /\ core = Unused /\ origP = 0 /\ origEdge = FALSE
    /\ exists = Unused /\ options = Unused /\ geomConverters = Unused
    /\ r = Unused /\ conv = Unused /\ streak = Unused
    /\ lastCall = Unused /\ afterRestore = "none"
DpaUnused == dpaCall = Unused
RxUnused == rxCall = Unused
DoseUnused ==
    /\ doseCs = Unused /\ blocks = Unused /\ assems = Unused
    /\ coreP = Unused /\ doseLast = Unused
    /\ iface = Unused /\ opPhase = Unused
BalUnused == balCall = Unused

(***************************************************************************)
(* Pure helpers                                                            *)
(***************************************************************************)
\* Python's  sub in s  for strings
Contains(sub, s) ==
    \E i \in 1..(Len(s) - Len(sub) + 1) : SubSeq(s, i, i + Len(sub) - 1) = sub

\* GlobalFluxOptions.fromUserSettings and fromReactor
getExecuterOptions(settings, reactorCore, applyResults) ==
    [kernelName |-> settings.kernelName,
     detailedAxialExpansion |-> settings.detailedAxialExpansion,
     hasNonUniformAssems |-> settings.nonUniformAssemFlags,
     geomType |-> reactorCore.geomType,
     symDomain |-> reactorCore.symDomain,
     symBoundary |-> reactorCore.symBoundary,
     applyResultsToReactor |-> applyResults]

\* the guard of _performGeometryTransformations: any(self.geomConverters)
GuardTripsNever(registry) == FALSE
GuardTripsOnlyAxial(registry) == "axial" \in registry
GuardTripsAll(registry) == TRUE
GuardTrips(registry) == registry # {}

\* the condition for axial mesh conversion
AxialNeeded(o) == o.detailedAxialExpansion \/ o.hasNonUniformAssems

\* GlobalFluxExecuter.edgeAssembliesAreNeeded
edgeAssembliesAreNeededAnyHex(o) ==
    /\ Contains(<<"F", "D">>, o.kernelName)
    /\ o.symDomain = "THIRD_CORE"
    /\ o.geomType = "HEX"
edgeAssembliesAreNeeded(o) ==
    /\ Contains(<<"F", "D">>, o.kernelName)
    /\ o.symDomain = "THIRD_CORE"
    /\ o.symBoundary = "PERIODIC"
    /\ o.geomType = "HEX"

\* the condition for pushing the converted state onto the original
ShouldApplyStateOnlyIfApply(o) == o.applyResultsToReactor
ShouldApplyStateAlways(o) == TRUE
ShouldApplyState(o) == o.applyResultsToReactor \/ o.hasNonUniformAssems

(***************************************************************************)
(* The steps of the two pipeline methods.  Each method is a sequence of    *)
(* converter calls and assignments; the sequence is computed from the      *)
(* registry and the options the way the code branches.                     *)
(***************************************************************************)
\* the steps that are calls of converter methods (they are logged, and may raise)
ConverterCalls ==
    {"convert", "plotConvertedReactor", "addEdgeAssemblies",
     "scaleParamsRelatedToSymmetry", "removeEdgeAssemblies",
     "applyStateToOriginal", "reset"}
\* the converter calls that belong to the edge-assembly changer
EdgeCalls == {"addEdgeAssemblies", "scaleParamsRelatedToSymmetry", "removeEdgeAssemblies"}
\* the converter calls that belong to the axial mesh converter
AxialCalls == {"convert", "plotConvertedReactor", "applyStateToOriginal", "reset"}

AxialSteps(registry, o, makePlots) ==
    IF "axial" \notin registry /\ AxialNeeded(o)
    THEN <<"convert">>
         \o (IF makePlots THEN <<"plotConvertedReactor">> ELSE <<>>)
         \o <<"registerAxial">>
    ELSE <<>>

EdgeSteps(o) ==
    IF edgeAssembliesAreNeeded(o)
    THEN <<"addEdgeAssemblies", "registerEdgeAssems">>
    ELSE <<>>

\* _performGeometryTransformations after its guard
performSteps(registry, o, makePlots) ==
    AxialSteps(registry, o, makePlots) \o EdgeSteps(o) \o <<"setWorkingModel">>

UndoEdgeStepsUnconditional(registry) ==
    <<"scaleParamsRelatedToSymmetry", "removeEdgeAssemblies">>
UndoEdgeSteps(registry) ==
    IF "edgeAssems" \in registry
    THEN <<"scaleParamsRelatedToSymmetry", "removeEdgeAssemblies">>
    ELSE <<>>

UndoAxialSteps(registry, o) ==
    IF "axial" \in registry
    THEN (IF ShouldApplyState(o) THEN <<"applyStateToOriginal">> ELSE <<>>)
         \o <<"restoreSourceReactor", "reset">>
    ELSE <<>>

\* _undoGeometryTransformations
undoStepsKeepRegistry(registry, o) ==
    UndoEdgeSteps(registry) \o UndoAxialSteps(registry, o)
undoStepsAxialFirst(registry, o) ==
    UndoAxialSteps(registry, o) \o UndoEdgeSteps(registry) \o <<"clearConverters">>
undoSteps(registry, o) ==
    UndoEdgeSteps(registry) \o UndoAxialSteps(registry, o) \o <<"clearConverters">>

(***************************************************************************)
(* The effect of one step on the executer and on the models it touches.    *)
(* S is the local view during a call: the original reactor (origP,         *)
(* origEdge), the executer's axial converter cv, its registry reg, its     *)
(* working model r, the local neutronicsReactor nr, and the call log.      *)
(***************************************************************************)
GetP(S, m) == IF m = "orig" THEN S.origP ELSE S.cv.p
GetEdge(S, m) == IF m = "orig" THEN S.origEdge ELSE S.cv.edge
SetP(S, m, v) ==
    IF m = "orig" THEN [S EXCEPT !.origP = v] ELSE [S EXCEPT !.cv.p = v]
SetEdge(S, m, v) ==
    IF m = "orig" THEN [S EXCEPT !.origEdge = v] ELSE [S EXCEPT !.cv.edge = v]

\* uniformMesh converter: convert(r) builds convReactor from r and keeps r as _sourceReactor
Convert(S) ==
    [S EXCEPT !.cv = [none |-> FALSE, p |-> GetP(S, S.r),
                      edge |-> GetEdge(S, S.r), source |-> S.r],
              !.nr = "conv"]

\* EdgeAssemblyChanger.scaleParamsRelatedToSymmetry(r): parameters of the
\* assemblies on the symmetry lines are rescaled to full hexes
ScaleParamsRelatedToSymmetry(S) ==
    IF GetEdge(S, S.r) THEN SetP(S, S.r, 2 * GetP(S, S.r)) ELSE S

\* uniformMesh converter: applyStateToOriginal() maps convReactor's state onto _sourceReactor
ApplyStateToOriginal(S) == SetP(S, S.cv.source, S.cv.p)

Effect(S, step) ==
    CASE step = "convert" -> Convert(S)
      [] step = "plotConvertedReactor" -> S
      [] step = "registerAxial" -> [S EXCEPT !.reg = S.reg \cup {"axial"}]
      [] step = "addEdgeAssemblies" -> SetEdge(S, S.nr, TRUE)
      [] step = "registerEdgeAssems" -> [S EXCEPT !.reg = S.reg \cup {"edgeAssems"}]
      [] step = "setWorkingModel" -> [S EXCEPT !.r = S.nr]
      [] step = "scaleParamsRelatedToSymmetry" -> ScaleParamsRelatedToSymmetry(S)
      [] step = "removeEdgeAssemblies" -> SetEdge(S, S.r, FALSE)
      [] step = "applyStateToOriginal" -> ApplyStateToOriginal(S)
      [] step = "restoreSourceReactor" -> [S EXCEPT !.r = S.cv.source]
      [] step = "reset" -> [S EXCEPT !.cv = NoConverter]
      [] step = "clearConverters" -> [S EXCEPT !.reg = {}]

Log(S, step) ==
    IF step \in ConverterCalls THEN [S EXCEPT !.log = Append(S.log, step)] ELSE S

\* run steps[i..]; the call numbered failAt raises when it is invoked
RECURSIVE Exec(_, _, _, _)
Exec(S, steps, i, failAt) ==
    IF i > Len(steps) THEN S
    ELSE IF i = failAt
         THEN [Log(S, steps[i]) EXCEPT !.outcome = "failed"]
         ELSE Exec(Effect(Log(S, steps[i]), steps[i]), steps, i + 1, failAt)

\* the longest step sequence of a pipeline method
MaxSteps == 6

\* the places where a call may raise: none (0), or the index of a converter call
FailPoints(steps) == {0} \cup {i \in 1..Len(steps) : steps[i] \in ConverterCalls}

Local(e) ==
    [origP |-> origP, origEdge |-> origEdge, cv |-> conv[e],
     reg |-> geomConverters[e], r |-> r[e], nr |-> r[e],
     log |-> <<>>, outcome |-> "ok"]

\* the parameters a model holds stay within the modelled range
InRange(S) ==
    /\ S.origP <= ParamCap
    /\ S.cv # NoConverter => S.cv.p <= ParamCap

NoCall == [exec |-> "none", op |-> "none", outcome |-> "ok", calls |-> <<>>]

\* the executer whose restore has just completed, if the last call was one
RestoredBy(call) ==
    IF call.op = "undo" /\ call.outcome = "ok" THEN call.exec ELSE "none"

Call(e, op, S) ==
    [exec |-> e, op |-> op, outcome |-> S.outcome, calls |-> S.log]

Commit(e, op, S) ==
    /\ InRange(S)
    /\ origP' = S.origP
    /\ origEdge' = S.origEdge
    /\ conv' = [conv EXCEPT ![e] = S.cv]
    /\ geomConverters' = [geomConverters EXCEPT ![e] = S.reg]
    /\ r' = [r EXCEPT ![e] = S.r]
    /\ afterRestore' = RestoredBy(lastCall)
    /\ lastCall' = Call(e, op, S)
    /\ UNCHANGED <<dpaVars, rxVars, doseVars, balVars, opPhase>>

(***************************************************************************)
(* Operations                                                              *)
(***************************************************************************)

GeomInit ==
    /\ cs \in [kernelName : KernelNames, detailedAxialExpansion : BOOLEAN,
               nonUniformAssemFlags : BOOLEAN]
    /\ core \in [symDomain : DomainTypes, symBoundary : BoundaryTypes,
                 geomType : GeomTypes]
    /\ origP \in 0..MaxParam
    /\ origEdge = FALSE
    /\ exists = [e \in Executers |-> FALSE]
    /\ options = [e \in Executers |-> getExecuterOptions(cs, core, TRUE)]
    /\ geomConverters = [e \in Executers |-> {}]
    /\ r = [e \in Executers |-> "orig"]
    /\ conv = [e \in Executers |-> NoConverter]
    /\ streak = [e \in Executers |-> 0]
    /\ lastCall = NoCall
    /\ afterRestore = "none"
    /\ DpaUnused /\ RxUnused /\ DoseUnused /\ BalUnused

\* GlobalFluxExecuter.__init__ with the given options on the interface's reactor
NewExecuter(e, opts, op) ==
    /\ exists' = [exists EXCEPT ![e] = TRUE]
    /\ options' = [options EXCEPT ![e] = opts]
    /\ geomConverters' = [geomConverters EXCEPT ![e] = {}]
    /\ r' = [r EXCEPT ![e] = "orig"]
    /\ conv' = [conv EXCEPT ![e] = NoConverter]
    /\ streak' = [streak EXCEPT ![e] = 0]
    /\ afterRestore' = RestoredBy(lastCall)
    /\ lastCall' = [NoCall EXCEPT !.exec = e, !.op = op]
    /\ UNCHANGED <<cs, core, origP, origEdge>>
    /\ UNCHANGED <<dpaVars, rxVars, doseVars, balVars, opPhase>>

\* GlobalFluxInterfaceUsingExecuters.getExecuter(label=...)
getExecuter(e) ==
    NewExecuter(e, getExecuterOptions(cs, core, TRUE), "getExecuter")

\* the executer calculateKeff builds: results are not applied to the reactor
calculateKeffExecuter(e) ==
    NewExecuter(e, getExecuterOptions(cs, core, FALSE), "calculateKeff")

\* GlobalFluxExecuter._performGeometryTransformations(makePlots)
performGeometryTransformations(e, makePlots, failAt) ==
    /\ exists[e]
    /\ streak[e] < MaxStreak
    /\ streak' = [streak EXCEPT ![e] = @ + 1]
    /\ UNCHANGED <<cs, core, exists, options>>
    /\ IF GuardTrips(geomConverters[e])
       THEN /\ failAt = 0
            /\ Commit(e, "apply", [Local(e) EXCEPT !.outcome = "RuntimeError"])
       ELSE LET steps == performSteps(geomConverters[e], options[e], makePlots)
            IN /\ failAt \in FailPoints(steps)
               /\ Commit(e, "apply", Exec(Local(e), steps, 1, failAt))

\* GlobalFluxExecuter._undoGeometryTransformations()
undoGeometryTransformations(e, failAt) ==
    /\ exists[e]
    /\ UNCHANGED <<cs, core, exists, options>>
    /\ LET steps == undoSteps(geomConverters[e], options[e])
           S == Exec(Local(e), steps, 1, failAt)
       IN /\ failAt \in FailPoints(steps)
          /\ Commit(e, "undo", S)
          /\ streak' = [streak EXCEPT ![e] = IF S.outcome = "ok" THEN 0 ELSE @]

\* the flux solve and result mapping between apply and restore: the results
\* are applied to the working model when options.applyResultsToReactor
solveAndMapResults(e, v) ==
    /\ exists[e]
    /\ UNCHANGED <<cs, core, exists, options, streak>>
    /\ LET S == IF options[e].applyResultsToReactor
                THEN SetP(Local(e), r[e], v)
                ELSE Local(e)
       IN Commit(e, "solve", S)

\* one executer at a time, as the interface's interactEveryNode uses them;
\* any converter call may raise
GeomNext ==
    \/ getExecuter("A")
    \/ calculateKeffExecuter("A")
    \/ \E makePlots \in BOOLEAN, failAt \in 0..MaxSteps :
          performGeometryTransformations("A", makePlots, failAt)
    \/ \E failAt \in 0..MaxSteps : undoGeometryTransformations("A", failAt)
    \/ \E v \in 0..MaxParam : solveAndMapResults("A", v)

GeomSpec == GeomInit /\ [][GeomNext]_geomVars

\* two executers built on the same reactor, their calls interleaved;
\* converter calls succeed
PairNext ==
    \/ \E e \in Executers : getExecuter(e)
    \/ \E e \in Executers : calculateKeffExecuter(e)
    \/ \E e \in Executers, makePlots \in BOOLEAN :
          performGeometryTransformations(e, makePlots, 0)
    \/ \E e \in Executers : undoGeometryTransformations(e, 0)
    \/ \E e \in Executers, v \in 0..MaxParam : solveAndMapResults(e, v)

PairSpec == GeomInit /\ [][PairNext]_geomVars

TypeOK ==
    /\ origP \in 0..ParamCap
    /\ origEdge \in BOOLEAN
    /\ \A e \in Executers :
          /\ geomConverters[e] \subseteq {"axial", "edgeAssems"}
          /\ r[e] \in {"orig", "conv"}
          /\ r[e] = "conv" => conv[e] # NoConverter
          /\ "axial" \in geomConverters[e] => conv[e] # NoConverter
          /\ streak[e] \in 0..MaxStreak

(***************************************************************************)
(* Properties of the geometry transform pipeline                           *)
(***************************************************************************)
\* the last call was operation op of executer e
LastIs(e, op) == lastCall.exec = e /\ lastCall.op = op
\* this step is a call of operation op by executer e
StepIs(e, op) == lastCall'.exec = e /\ lastCall'.op = op
\* this step is an apply call of executer e
ApplyStep(e) == StepIs(e, "apply") /\ streak'[e] = streak[e] + 1
\* call c occurs in the call log
Called(log, c) == \E i \in 1..Len(log) : log[i] = c
\* the options ask for an axial mesh conversion
WantsAxial(o) == o.detailedAxialExpansion \/ o.hasNonUniformAssems
\* the options ask for edge assemblies
WantsEdge(o) ==
    /\ o.kernelName \in FiniteDifferenceKernels
    /\ o.symDomain = "THIRD_CORE"
    /\ o.symBoundary = "PERIODIC"
    /\ o.geomType = "HEX"

\* C1 as stated: a second apply of the same executer with no restore call
\* between raises the fatal error, whatever the options.
C1_SecondApplyAlwaysRaises ==
    \A e \in Executers :
        LastIs(e, "apply") /\ streak[e] >= 2 => lastCall.outcome = "RuntimeError"

\* C1 amended: an apply that directly follows a completed apply of the same
\* executer raises the fatal error exactly when the options call for at least
\* one transform (axial conversion or edge assemblies); with options that
\* need no transform the second call passes the guard.
C1_SecondApplyRaisesIffTransformed ==
    [][\A e \in Executers :
          (LastIs(e, "apply") /\ lastCall.outcome = "ok" /\ ApplyStep(e))
          => (lastCall'.outcome = "RuntimeError"
              <=> (WantsAxial(options[e]) \/ WantsEdge(options[e])))]_geomVars

C1_Witness ==
    /\ LastIs("A", "apply")
    /\ streak["A"] = 2
    /\ lastCall.outcome = "RuntimeError"
    /\ geomConverters["A"] = {"axial"}

\* C2: an apply called while any converter is registered fails with the
\* RuntimeError before any converter is constructed or run, and leaves the
\* registry, the working model pointer, the converter and the reactor as
\* they were.
C2_GuardRejectsAndChangesNothing ==
    [][\A e \in Executers :
          (ApplyStep(e) /\ geomConverters[e] # {})
          => /\ lastCall'.outcome = "RuntimeError"
             /\ lastCall'.calls = <<>>
             /\ geomConverters'[e] = geomConverters[e]
             /\ r'[e] = r[e]
             /\ conv'[e] = conv[e]
             /\ origP' = origP
             /\ origEdge' = origEdge]_geomVars

C2_Witness ==
    /\ LastIs("A", "apply")
    /\ lastCall.outcome = "RuntimeError"
    /\ lastCall.calls = <<>>
    /\ geomConverters["A"] = {"edgeAssems"}
    /\ r["A"] = "orig"

\* C3: when a restore returns, the registry is empty and the working model
\* is the original reactor, whatever was registered before; an apply that
\* directly follows it does not trip the guard.
C3_RestoreLeavesEmptyRegistryAndOriginal ==
    \A e \in Executers :
        /\ (LastIs(e, "undo") /\ lastCall.outcome = "ok")
           => (geomConverters[e] = {} /\ r[e] = "orig")
        /\ (afterRestore = e /\ LastIs(e, "apply"))
           => lastCall.outcome # "RuntimeError"

C3_Witness ==
    /\ LastIs("A", "undo")
    /\ lastCall.outcome = "ok"
    /\ Called(lastCall.calls, "removeEdgeAssemblies")
    /\ Called(lastCall.calls, "reset")
    /\ geomConverters["A"] = {}
    /\ r["A"] = "orig"

\* C4: apply runs the axial conversion before the edge-assembly insertion
\* and inserts the edge assemblies into the converted model; restore calls
\* the edge-assembly changer (rescaling, then removal) before it calls the
\* axial converter (applyStateToOriginal, reset).
C4_ReverseOrder ==
    \A e \in Executers :
        LET log == lastCall.calls IN
        /\ LastIs(e, "apply")
           => /\ \A i, j \in 1..Len(log) :
                    (log[i] \in AxialCalls /\ log[j] \in EdgeCalls) => i < j
              /\ (lastCall.outcome = "ok" /\ Called(log, "convert")
                  /\ Called(log, "addEdgeAssemblies"))
                 => (conv[e].edge /\ ~origEdge)
        /\ LastIs(e, "undo")
           => /\ \A i, j \in 1..Len(log) :
                    (log[i] \in EdgeCalls /\ log[j] \in AxialCalls) => i < j
              /\ \A i, j \in 1..Len(log) :
                    (log[i] = "scaleParamsRelatedToSymmetry"
                     /\ log[j] = "removeEdgeAssemblies") => i < j

C4_Witness ==
    /\ LastIs("A", "undo")
    /\ lastCall.outcome = "ok"
    /\ lastCall.calls = <<"scaleParamsRelatedToSymmetry", "removeEdgeAssemblies",
                          "applyStateToOriginal", "reset">>

\* C5 as stated: with applyResultsToReactor = False a restore never pushes
\* the converted model's state onto the original reactor, whatever the other
\* options are.
C5_NeverPushedWithoutApplyResults ==
    \A e \in Executers :
        (LastIs(e, "undo") /\ ~options[e].applyResultsToReactor)
        => ~Called(lastCall.calls, "applyStateToOriginal")

\* C5 amended: with applyResultsToReactor = False and hasNonUniformAssems =
\* False, no call of the executer (apply, solve, restore) pushes the
\* converted model's state onto the original reactor, and when the axial
\* conversion is on or no edge assemblies are needed the original reactor's
\* parameters and assemblies are left as they were.
C5_OriginalUntouchedUnlessNonUniform ==
    [][\A e \in Executers :
          ((StepIs(e, "apply") \/ StepIs(e, "solve") \/ StepIs(e, "undo"))
           /\ ~options[e].applyResultsToReactor
           /\ ~options[e].hasNonUniformAssems)
          => /\ ~Called(lastCall'.calls, "applyStateToOriginal")
             /\ (options[e].detailedAxialExpansion \/ ~WantsEdge(options[e]))
                => (origP' = origP /\ origEdge' = origEdge)]_geomVars

C5_Witness ==
    /\ LastIs("A", "undo")
    /\ lastCall.outcome = "ok"
    /\ ~options["A"].applyResultsToReactor
    /\ ~options["A"].hasNonUniformAssems
    /\ lastCall.calls = <<"reset">>

\* C6 as stated: while executer a has transforms applied to the reactor and
\* not restored, an apply of another executer b on that reactor is rejected.
C6_OtherExecuterRejected ==
    \A a, b \in Executers :
        (a # b /\ exists[a] /\ geomConverters[a] # {} /\ LastIs(b, "apply"))
        => lastCall.outcome = "RuntimeError"

\* C6 amended: the guard looks at the calling executer's own registry only:
\* an apply of executer b is rejected exactly when b's own registry is not
\* empty, whether or not another executer has transforms applied to the
\* same reactor.
C6_GuardIsPerExecuter ==
    [][\A b \in Executers :
          ApplyStep(b)
          => (lastCall'.outcome = "RuntimeError" <=> geomConverters[b] # {})]_geomVars

C6_Witness ==
    /\ LastIs("B", "apply")
    /\ lastCall.outcome = "ok"
    /\ exists["A"]
    /\ geomConverters["A"] # {}
    /\ geomConverters["B"] # {}
    /\ streak["A"] = 1

\* C7 as stated: when a step of apply or restore fails, the registry is
\* empty when the error propagates.
C7_RegistryEmptyOnFailure ==
    \A e \in Executers :
        (lastCall.exec = e /\ lastCall.outcome = "failed") => geomConverters[e] = {}

\* C8: a restore called directly after a completed restore of the same
\* executer invokes no converter method, does not raise, and changes
\* neither the registry, nor the working model pointer, nor the converter,
\* nor the reactor.
C8_RestoreIdempotent ==
    [][\A e \in Executers :
          (LastIs(e, "undo") /\ lastCall.outcome = "ok" /\ StepIs(e, "undo"))
          => /\ lastCall'.calls = <<>>
             /\ lastCall'.outcome = "ok"
             /\ geomConverters'[e] = geomConverters[e]
             /\ r'[e] = r[e]
             /\ conv'[e] = conv[e]
             /\ origP' = origP
             /\ origEdge' = origEdge]_geomVars

C8_Witness ==
    /\ afterRestore = "A"
    /\ LastIs("A", "undo")
    /\ lastCall.outcome = "ok"
    /\ lastCall.calls = <<>>
    /\ WantsEdge(options["A"])
    /\ streak["A"] = 0

\* C9: after an apply that completes (so it started from an empty
\* registry), the axial converter is registered iff detailedAxialExpansion
\* or hasNonUniformAssems, the edge-assembly converter is registered iff the
\* kernel is a finite-difference one and the symmetry is third-core periodic
\* and the geometry hexagonal, and the working model is the converted model
\* iff the axial converter is registered.
C9_RegisteredConvertersFollowOptions ==
    \A e \in Executers :
        (LastIs(e, "apply") /\ lastCall.outcome = "ok")
        => /\ "axial" \in geomConverters[e] <=> WantsAxial(options[e])
           /\ "edgeAssems" \in geomConverters[e] <=> WantsEdge(options[e])
           /\ r[e] = "conv" <=> "axial" \in geomConverters[e]

C9_Witness ==
    /\ LastIs("A", "apply")
    /\ lastCall.outcome = "ok"
    /\ geomConverters["A"] = {"axial", "edgeAssems"}
    /\ r["A"] = "conv"
    /\ ~options["A"].detailedAxialExpansion

\* C10: a restore that completes with the axial converter registered pushes
\* the converted model's state onto the original iff applyResultsToReactor
\* or hasNonUniformAssems; otherwise the original's parameters are not
\* written; either way the working model is the original again and the
\* converter is reset.
C10_PushIffApplyOrNonUniform ==
    [][\A e \in Executers :
          (StepIs(e, "undo") /\ lastCall'.outcome = "ok"
           /\ "axial" \in geomConverters[e])
          => /\ Called(lastCall'.calls, "applyStateToOriginal")
                <=> (options[e].applyResultsToReactor
                     \/ options[e].hasNonUniformAssems)
             /\ Called(lastCall'.calls, "applyStateToOriginal")
                => origP' = (IF r[e] = "conv" /\ conv[e].edge
                                /\ "edgeAssems" \in geomConverters[e]
                             THEN 2 * conv[e].p ELSE conv[e].p)
             /\ ~Called(lastCall'.calls, "applyStateToOriginal")
                => origP' = origP
             /\ r'[e] = "orig"
             /\ Called(lastCall'.calls, "reset")
             /\ conv'[e] = NoConverter]_geomVars

C10_Witness ==
    /\ LastIs("A", "undo")
    /\ lastCall.outcome = "ok"
    /\ lastCall.calls = <<"applyStateToOriginal", "reset">>
    /\ ~options["A"].applyResultsToReactor
    /\ options["A"].hasNonUniformAssems
    /\ r["A"] = "orig"

(***************************************************************************)
(* Part 2: computeDpaRate(mgFlux, dpaXs)                                   *)
(*                                                                         *)
(* Numbers are exact and carried in fixed units: group flux in             *)
(* 10^FLUX_UNIT_EXP n/cm2/s, cross sections in barns, dpa rates in         *)
(* 10^-RATE_UNIT_EXP dpa/s.  Floating-point rounding is not modelled.      *)
(***************************************************************************)
\* largest number of energy groups of a flux or cross-section vector
MaxGroups == 2

FLUX_UNIT_EXP == 13
RATE_UNIT_EXP == 12
\* units.CM2_PER_BARN is 10^-24
CM2_PER_BARN_EXP == 24
\* the rate below which a negative dpa rate is fatal is -10^-10
NEGATIVE_RATE_LIMIT_EXP == 10

\* group fluxes and cross sections a call may be given
FluxValues == {-100, -10, -1, 0, 10, 20}
XsValues == {1, 10, 20}

SeqsUpTo(S, n) == UNION {[1..k -> S] : k \in 0..n}

MinOf(a, b) == IF a <= b THEN a ELSE b

\* for flux, barns in zip(mgFlux, dpaXs): displacements += flux * barns
RECURSIVE ZipDot(_, _, _)
ZipDot(mgFlux, dpaXs, n) ==
    IF n = 0 THEN 0 ELSE ZipDot(mgFlux, dpaXs, n - 1) + mgFlux[n] * dpaXs[n]
Displacements(mgFlux, dpaXs) ==
    ZipDot(mgFlux, dpaXs, MinOf(Len(mgFlux), Len(dpaXs)))

\* dpaPerSecond = displacements * units.CM2_PER_BARN, in the rate unit
ToDpaPerSecondNoConversion(displacements) == displacements
ToDpaPerSecond(displacements) ==
    displacements * 10 ^ (FLUX_UNIT_EXP + RATE_UNIT_EXP - CM2_PER_BARN_EXP)

\* if len(mgFlux) != len(dpaXs)
LengthsDifferIgnored(mgFlux, dpaXs) == FALSE
LengthsDiffer(mgFlux, dpaXs) == Len(mgFlux) # Len(dpaXs)

\* if dpaPerSecond < -1.0e-10
SubstantiallyNegativeInclusive(dpaPerSecond) ==
    dpaPerSecond <= -(10 ^ (RATE_UNIT_EXP - NEGATIVE_RATE_LIMIT_EXP))
SubstantiallyNegative(dpaPerSecond) ==
    dpaPerSecond < -(10 ^ (RATE_UNIT_EXP - NEGATIVE_RATE_LIMIT_EXP))

Returns(v) == [raised |-> FALSE, value |-> v]
Raises(err) == [raised |-> TRUE, value |-> err]

computeDpaRate(mgFlux, dpaXs) ==
    IF LengthsDiffer(mgFlux, dpaXs)
    THEN Returns(0)
    ELSE LET dpaPerSecond == ToDpaPerSecond(Displacements(mgFlux, dpaXs))
         IN IF dpaPerSecond < 0
            THEN IF SubstantiallyNegative(dpaPerSecond)
                 THEN Raises("RuntimeError")
                 ELSE Returns(0)
            ELSE Returns(dpaPerSecond)

DpaInit ==
    /\ dpaCall \in [mgFlux : SeqsUpTo(FluxValues, MaxGroups),
                    dpaXs : SeqsUpTo(XsValues, MaxGroups),
                    done : {FALSE}, result : {Returns(0)}]
    /\ GeomUnused /\ RxUnused /\ DoseUnused /\ BalUnused

computeDpaRateCall ==
    /\ ~dpaCall.done
    /\ dpaCall' = [dpaCall EXCEPT !.done = TRUE,
                                  !.result = computeDpaRate(dpaCall.mgFlux, dpaCall.dpaXs)]
    /\ UNCHANGED <<geomVars, rxVars, doseVars, balVars, opPhase>>

DpaNext == computeDpaRateCall

DpaSpec == DpaInit /\ [][DpaNext]_dpaVars

\* the exact weighted sum of two equally long vectors
RECURSIVE WeightedSum(_, _)
WeightedSum(f, x) ==
    IF f = <<>> THEN 0 ELSE Head(f) * Head(x) + WeightedSum(Tail(f), Tail(x))
\* the exact rate of a call in units of 1e-12 dpa/s: flux unit 1e13 times 1e-24
ExactRate(call) == 10 * WeightedSum(call.mgFlux, call.dpaXs)
EqualLengths(call) == Len(call.mgFlux) = Len(call.dpaXs)

\* C13 as stated: with equally long vectors the call raises exactly when the
\* computed rate is <= -1e-10 (-100 units), and otherwise returns.
C13_FatalAtOrBelowLimit ==
    (dpaCall.done /\ EqualLengths(dpaCall))
    => (dpaCall.result.raised <=> ExactRate(dpaCall) <= -100)

\* C13 amended: with equally long vectors the call raises exactly when the
\* computed rate is strictly below -1e-10; a rate in [-1e-10, 0), the limit
\* -1e-10 included, is returned as 0.
C13_FatalOnlyBelowLimit ==
    (dpaCall.done /\ EqualLengths(dpaCall))
    => /\ dpaCall.result.raised <=> ExactRate(dpaCall) < -100
       /\ (-100 <= ExactRate(dpaCall) /\ ExactRate(dpaCall) < 0)
          => dpaCall.result = Returns(0)

C13_Witness ==
    /\ dpaCall.done
    /\ EqualLengths(dpaCall)
    /\ ExactRate(dpaCall) = -100
    /\ dpaCall.result = Returns(0)

\* C14: a call with vectors of different lengths returns 0 and does not
\* raise, whatever the values are.
C14_MismatchReturnsZero ==
    (dpaCall.done /\ ~EqualLengths(dpaCall)) => dpaCall.result = Returns(0)

C14_Witness ==
    /\ dpaCall.done
    /\ dpaCall.mgFlux = <<-100, 10>>
    /\ dpaCall.dpaXs = <<20>>
    /\ dpaCall.result = Returns(0)

\* C15: with equally long vectors whose weighted sum is not negative the
\* call returns the sum times 1e-24 (flux 1e14, 2e14 with cross sections 10,
\* 20 gives 5e-9, that is 5000 units); a returned rate is never negative.
C15_RateIsWeightedSum ==
    dpaCall.done
    => /\ (EqualLengths(dpaCall) /\ WeightedSum(dpaCall.mgFlux, dpaCall.dpaXs) >= 0)
          => dpaCall.result = Returns(ExactRate(dpaCall))
       /\ (dpaCall.mgFlux = <<10, 20>> /\ dpaCall.dpaXs = <<10, 20>>)
          => dpaCall.result = Returns(5000)
       /\ ~dpaCall.result.raised => dpaCall.result.value >= 0

C15_Witness ==
    /\ dpaCall.done
    /\ dpaCall.mgFlux = <<10, 20>>
    /\ dpaCall.dpaXs = <<10, 20>>
    /\ dpaCall.result = Returns(5000)

(***************************************************************************)
(* Part 3: calcReactionRates(obj, keff, lib)                               *)
(*                                                                         *)
(* Rates are exact integers; keff and the neutrons per fission are chosen  *)
(* so that the division by keff is exact.                                  *)
(***************************************************************************)
\* largest number of energy groups of the object's multigroup flux
MaxRxGroups == 2

RX_ABS_MICRO_LABELS_WithN2n == <<"nGamma", "fission", "nalph", "np", "nd", "nt", "n2n">>
RX_ABS_MICRO_LABELS == <<"nGamma", "fission", "nalph", "np", "nd", "nt">>
RX_PARAM_NAMES == {"rateCap", "rateFis", "rateProdN2n", "rateProdFis", "rateAbs"}

Nuclides == {"U235", "FE56"}
NumberDensities == {0, 1, 2}
GroupFluxes == {-1, 0, 1, 2}
KeffValues == {1, 2}
\* 1 / obj.getComponentAreaFrac(Flags.FUEL)
FuelAreaFracInverses == {1, 2}
\* values the rate parameters may hold from an earlier call
PriorRates == {0, 7}

\* nucMc.micros of the nuclides a library may hold, three groups each
FissileMicros ==
    [nGamma |-> <<1, 2, 1>>, fission |-> <<2, 3, 1>>, nalph |-> <<0, 0, 0>>,
     np |-> <<0, 0, 0>>, nd |-> <<0, 0, 0>>, nt |-> <<0, 0, 0>>,
     n2n |-> <<1, 0, 1>>, neutronsPerFission |-> <<2, 4, 2>>]
StructureMicros ==
    [nGamma |-> <<1, 1, 2>>, fission |-> <<0, 0, 0>>, nalph |-> <<1, 0, 0>>,
     np |-> <<0, 1, 0>>, nd |-> <<0, 0, 1>>, nt |-> <<1, 0, 0>>,
     n2n |-> <<2, 1, 0>>, neutronsPerFission |-> <<0, 0, 0>>]
FertileMicros ==
    [nGamma |-> <<3, 1, 1>>, fission |-> <<1, 0, 0>>, nalph |-> <<0, 1, 0>>,
     np |-> <<0, 0, 0>>, nd |-> <<0, 0, 0>>, nt |-> <<0, 0, 1>>,
     n2n |-> <<0, 2, 1>>, neutronsPerFission |-> <<2, 2, 2>>]
MicroSets == {FissileMicros, StructureMicros, FertileMicros}

\* if numberDensity == 0.0: continue
SkipsNoNuclide(numberDensity) == FALSE
SkipsNuclide(numberDensity) == numberDensity = 0

ZeroRates == [simple \in RX_PARAM_NAMES |-> 0]

\* one pass of the body of `for g, (groupFlux, xs) in enumerate(zip(...))`
AbsGroup(nucrate, name, numberDensity, groupFlux, xs, nu, keff) ==
    LET dphi == numberDensity * groupFlux
        withAbs == [nucrate EXCEPT !.rateAbs = @ + dphi * xs]
    IN IF name # "fission"
       THEN [withAbs EXCEPT !.rateCap = @ + dphi * xs]
       ELSE [withAbs EXCEPT !.rateFis = @ + dphi * xs,
                            !.rateProdFis = @ + (dphi * xs * nu) \div keff]

RECURSIVE AbsGroups(_, _, _, _, _, _, _)
AbsGroups(nucrate, name, numberDensity, mgFlux, micros, keff, g) ==
    IF g > MinOf(Len(mgFlux), Len(micros[name]))
    THEN nucrate
    ELSE AbsGroups(AbsGroup(nucrate, name, numberDensity, mgFlux[g],
                            micros[name][g], micros.neutronsPerFission[g], keff),
                   name, numberDensity, mgFlux, micros, keff, g + 1)

RECURSIVE AbsLabels(_, _, _, _, _, _)
AbsLabels(nucrate, numberDensity, mgFlux, micros, keff, i) ==
    IF i > Len(RX_ABS_MICRO_LABELS)
    THEN nucrate
    ELSE AbsLabels(AbsGroups(nucrate, RX_ABS_MICRO_LABELS[i], numberDensity,
                             mgFlux, micros, keff, 1),
                   numberDensity, mgFlux, micros, keff, i + 1)

RECURSIVE N2nGroups(_, _, _, _, _)
N2nGroups(nucrate, numberDensity, mgFlux, n2n, g) ==
    IF g > MinOf(Len(mgFlux), Len(n2n))
    THEN nucrate
    ELSE N2nGroups([nucrate EXCEPT !.rateProdN2n =
                        @ + 2 * (numberDensity * mgFlux[g]) * n2n[g]],
                   numberDensity, mgFlux, n2n, g + 1)

NuclideRates(numberDensity, mgFlux, micros, keff) ==
    N2nGroups(AbsLabels(ZeroRates, numberDensity, mgFlux, micros, keff, 1),
              numberDensity, mgFlux, micros.n2n, 1)

\* if nucrate[simple]: rate[simple] += nucrate[simple]
AddNuclide(rate, nucrate) ==
    [simple \in RX_PARAM_NAMES |->
        IF nucrate[simple] # 0 THEN rate[simple] + nucrate[simple] ELSE rate[simple]]

\* the loop over numberDensities.items(); acc carries the running totals and
\* the names handed to lib.getNuclide
RECURSIVE NuclideLoop(_, _, _, _, _, _)
NuclideLoop(acc, todo, numberDensities, mgFlux, lib, keff) ==
    IF todo = {}
    THEN acc
    ELSE LET nucName == CHOOSE n \in todo : TRUE
             numberDensity == numberDensities[nucName]
         IN IF SkipsNuclide(numberDensity)
            THEN NuclideLoop(acc, todo \ {nucName}, numberDensities, mgFlux, lib, keff)
            ELSE NuclideLoop(
                     [rate |-> AddNuclide(acc.rate,
                                   NuclideRates(numberDensity, mgFlux, lib[nucName], keff)),
                      lookups |-> acc.lookups \cup {nucName}],
                     todo \ {nucName}, numberDensities, mgFlux, lib, keff)

calcReactionRates(obj, keff, lib) ==
    LET out == NuclideLoop([rate |-> ZeroRates, lookups |-> {}],
                           DOMAIN obj.numberDensities, obj.numberDensities,
                           obj.mgFlux, lib, keff)
        vFuelInverse == IF out.rate.rateFis > 0 THEN obj.fuelAreaFracInverse ELSE 1
    IN [p |-> out.rate,
        fisDens |-> out.rate.rateFis * vFuelInverse,
        lookups |-> out.lookups]

RxInit ==
    /\ \E prior \in PriorRates :
          rxCall \in [obj : [numberDensities : [Nuclides -> NumberDensities],
                             mgFlux : SeqsUpTo(GroupFluxes, MaxRxGroups),
                             fuelAreaFracInverse : FuelAreaFracInverses],
                      keff : KeffValues,
                      lib : [Nuclides -> MicroSets],
                      done : {FALSE},
                      p : {[simple \in RX_PARAM_NAMES |-> prior]},
                      fisDens : {prior},
                      lookups : {{}}]
    /\ GeomUnused /\ DpaUnused /\ DoseUnused /\ BalUnused

calcReactionRatesCall ==
    /\ ~rxCall.done
    /\ LET out == calcReactionRates(rxCall.obj, rxCall.keff, rxCall.lib)
       IN rxCall' = [rxCall EXCEPT !.done = TRUE, !.p = out.p,
                                   !.fisDens = out.fisDens, !.lookups = out.lookups]
    /\ UNCHANGED <<geomVars, dpaVars, doseVars, balVars, opPhase>>

RxNext == calcReactionRatesCall

RxSpec == RxInit /\ [][RxNext]_rxVars

\* the sum of the values of a function with a finite domain
RECURSIVE SumOver(_)
SumOver(f) ==
    IF DOMAIN f = {} THEN 0
    ELSE LET x == CHOOSE y \in DOMAIN f : TRUE
         IN f[x] + SumOver([y \in DOMAIN f \ {x} |-> f[y]])

\* groups present both in the flux and in the three-group library
CommonGroups(call) == 1..MinOf(Len(call.obj.mgFlux), 3)
Present(call) == {n \in Nuclides : call.obj.numberDensities[n] # 0}
\* the number density times flux times cross section of one reaction, summed
\* over the given nuclides and the common groups
ReactionSum(call, nucs, label) ==
    SumOver([n \in nucs |->
        SumOver([g \in CommonGroups(call) |->
            call.obj.numberDensities[n] * call.obj.mgFlux[g] * call.lib[n][label][g]])])
CaptureSum(call, nucs) ==
    ReactionSum(call, nucs, "nGamma") + ReactionSum(call, nucs, "nalph")
    + ReactionSum(call, nucs, "np") + ReactionSum(call, nucs, "nd")
    + ReactionSum(call, nucs, "nt")

\* C16: after calcReactionRates the stored rateAbs equals rateCap + rateFis;
\* rateAbs is the capture plus fission sum without any n2n term, n2n enters
\* rateProdN2n only (twice the n2n reaction sum), and the rates are those of
\* the nuclides with non-zero number density alone, the only ones looked up
\* in the library.
C16_AbsorptionIsCapturePlusFission ==
    rxCall.done
    => /\ rxCall.p.rateAbs = rxCall.p.rateCap + rxCall.p.rateFis
       /\ rxCall.p.rateCap = CaptureSum(rxCall, Present(rxCall))
       /\ rxCall.p.rateFis = ReactionSum(rxCall, Present(rxCall), "fission")
       /\ rxCall.p.rateAbs = CaptureSum(rxCall, Present(rxCall))
                             + ReactionSum(rxCall, Present(rxCall), "fission")
       /\ rxCall.p.rateProdN2n = 2 * ReactionSum(rxCall, Present(rxCall), "n2n")
       /\ rxCall.lookups = Present(rxCall)

\* a call on an object with one absent nuclide, whose present nuclide has
\* capture, fission and n2n reactions in a non-zero flux
C16_Witness ==
    /\ rxCall.done
    /\ rxCall.obj.numberDensities["U235"] = 2
    /\ rxCall.obj.numberDensities["FE56"] = 0
    /\ rxCall.lib["U235"] = FissileMicros
    /\ rxCall.obj.mgFlux = <<1, 2>>
    /\ rxCall.p.rateCap = 10
    /\ rxCall.p.rateFis = 16
    /\ rxCall.p.rateAbs = 26
    /\ rxCall.p.rateProdN2n = 4
    /\ rxCall.lookups = {"U235"}

(***************************************************************************)
(* Part 4: dose accumulation (updateDpaRate, updateFluenceAndDpa,          *)
(* updateCycleDoseParams, updateLoadpadDose, interactBOC)                  *)
(*                                                                         *)
(* Units: flux and dpa rates as in part 2, times in seconds, elevations in *)
(* units of a quarter of a block height, fastFluxFr in quarters.  All dose *)
(* arithmetic is exact.                                                    *)
(***************************************************************************)
\* most calls of updateFluenceAndDpa in one behaviour
MaxDoseCalls == 2

SECONDS_PER_DAY == 86400
\* None is the empty tuple, a value x that may be None is held as <<x>>
None == <<>>
NoAssem == "None"
\* numpy.zeros((6,)) and a six-point array with every entry x
SixOf(x) == [k \in 1..6 |-> x]

\* the core: a three-block fuel assembly and a one-block grid-plate assembly
BlockIds == 1..4
AssemIds == {"A1", "A2"}
AssemBlocks == [A1 |-> <<1, 2, 3>>, A2 |-> <<4>>]
CoreAssemblies == <<"A1", "A2">>
FuelBlocks == {1, 2, 3}
GridPlateBlocks == {4}
\* elevation of the midpoint of each block
BlockCenter == <<2, 6, 10, 2>>
\* r.o.stepLengths of a cycle, in days, and r.p.cycleLength
StepLengths == <<1, 1>>
CycleLength == 2

\* constants.DPA_CROSS_SECTIONS: set name -> one-group cross section in barns
DPA_CROSS_SECTIONS == [dpa_EBRII_HT9 |-> <<1>>, dpa_EBRII_PE16 |-> <<2>>]
DpaXsSetNames == {"dpa_EBRII_HT9", "dpa_EBRII_PE16"}

\* case settings and options the mapper reads
NoPeakingSettings ==
    [burnupPeakingFactor |-> 0, dpaXsSet |-> "dpa_EBRII_HT9",
     gridPlateDpaXsSet |-> "", dpaPerFluence |-> 2, aclpDoseLimit |-> 7776000,
     loadPadElevation |-> 0, loadPadLength |-> 0]
UserPeakingSettings ==
    [NoPeakingSettings EXCEPT !.burnupPeakingFactor = 3, !.dpaPerFluence = 0]
DoseSettings == {NoPeakingSettings, UserPeakingSettings}
\* settings of the two dpa cross section sets: a known set, a set that
\* constants.DPA_CROSS_SECTIONS does not have, and for the grid plate none
DpaXsSetChoices == {"dpa_EBRII_HT9", "dpa_EBRII_PE16", "dpa_unknown"}
GridPlateDpaXsSetChoices == DpaXsSetChoices \cup {""}
DpaXsSettings ==
    {[base EXCEPT !.dpaXsSet = d, !.gridPlateDpaXsSet = g] :
        base \in DoseSettings, d \in DpaXsSetChoices,
        g \in GridPlateDpaXsSetChoices}

\* block parameters written by the flux solve: flux and fluxPeak per block
NoFlux == [b \in BlockIds |-> [flux |-> 0, fluxPeak |-> 0]]
PeakedFlux ==
    <<[flux |-> 1, fluxPeak |-> 2], [flux |-> 3, fluxPeak |-> 3],
      [flux |-> 1, fluxPeak |-> 2], [flux |-> 1, fluxPeak |-> 2]>>
TiltedFluxNoPeak ==
    <<[flux |-> 3, fluxPeak |-> 0], [flux |-> 1, fluxPeak |-> 0],
      [flux |-> 0, fluxPeak |-> 0], [flux |-> 1, fluxPeak |-> 0]>>
FluxShapes == {PeakedFlux, TiltedFluxNoPeak}

\* parameters set by depletion and by the block's geometry, fixed in a run
BlockInputs ==
    <<[buRatePeak |-> 3, buRate |-> 2, percentBu |-> 5, fastFluxFr |-> 2,
       pointsCornerDpaRate |-> SixOf(1), pointsEdgeDpaRate |-> None],
      [buRatePeak |-> 0, buRate |-> 2, percentBu |-> 5, fastFluxFr |-> 2,
       pointsCornerDpaRate |-> SixOf(1), pointsEdgeDpaRate |-> SixOf(2)],
      [buRatePeak |-> 0, buRate |-> 0, percentBu |-> 5, fastFluxFr |-> 1,
       pointsCornerDpaRate |-> None, pointsEdgeDpaRate |-> SixOf(2)],
      [buRatePeak |-> 0, buRate |-> 0, percentBu |-> 0, fastFluxFr |-> 0,
       pointsCornerDpaRate |-> None, pointsEdgeDpaRate |-> None]>>

NewBlock(b) ==
    [flux |-> 0, fluxPeak |-> 0, mgFlux |-> <<0>>,
     fastFluxFr |-> BlockInputs[b].fastFluxFr,
     buRatePeak |-> BlockInputs[b].buRatePeak,
     buRate |-> BlockInputs[b].buRate,
     percentBu |-> BlockInputs[b].percentBu,
     percentBuPeak |-> 1,
     pointsCornerDpaRate |-> BlockInputs[b].pointsCornerDpaRate,
     pointsEdgeDpaRate |-> BlockInputs[b].pointsEdgeDpaRate,
     pointsCornerDpa |-> None, pointsEdgeDpa |-> None,
     residence |-> 0, fluence |-> 0, fastFluence |-> 0, fastFluencePeak |-> 0,
     dpaPeakFromFluence |-> 0,
     detailedDpaRate |-> 0, detailedDpaPeakRate |-> 0,
     newDPA |-> 0, newDPAPeak |-> 0,
     detailedDpa |-> 0, detailedDpaPeak |-> 0, detailedDpaThisCycle |-> 0]

NewCoreP ==
    [timeNode |-> 0, keff |-> 0, rxSwing |-> 0,
     maxDetailedDpaThisCycle |-> 0, dpaFullWidthHalfMax |-> 0,
     elevationOfACLP3Cycles |-> 0, elevationOfACLP7Cycles |-> 0,
     maxdetailedDpaPeak |-> 0, maxDPA |-> 0, maxGridDpa |-> 0,
     peakGridDpaAt60Years |-> 0,
     loadPadDpaAvg |-> 0, loadPadDpaPeak |-> 0]

RECURSIVE MaxOf(_)
MaxOf(S) ==
    LET x == CHOOSE y \in S : TRUE
    IN IF S = {x} THEN x
       ELSE LET m == MaxOf(S \ {x}) IN IF x > m THEN x ELSE m

Range(s) == {s[i] : i \in DOMAIN s}

\* core.getMaxBlockParam(param, typeSpec): the largest value over the blocks
\* of the type
getMaxBlockParam(bs, param, typeBlocks) == MaxOf({bs[b][param] : b \in typeBlocks})

\* getDpaXs(b); settings stands for self.cs and self.options
getDpaXsWhateverTheFlags(settings, b) ==
    LET dpaXsSetName ==
            IF settings.gridPlateDpaXsSet # ""
            THEN settings.gridPlateDpaXsSet
            ELSE settings.dpaXsSet
    IN IF dpaXsSetName \in DpaXsSetNames
       THEN Returns(DPA_CROSS_SECTIONS[dpaXsSetName])
       ELSE Raises("KeyError")
getDpaXs(settings, b) ==
    LET dpaXsSetName ==
            IF settings.gridPlateDpaXsSet # "" /\ b \in GridPlateBlocks
            THEN settings.gridPlateDpaXsSet
            ELSE settings.dpaXsSet
    IN IF dpaXsSetName \in DpaXsSetNames
       THEN Returns(DPA_CROSS_SECTIONS[dpaXsSetName])
       ELSE Raises("KeyError")

\* getBurnupPeakingFactor(b); a peak flux is a whole multiple of the flux
getBurnupPeakingFactorFluxFirst(settings, blk) ==
    IF blk.fluxPeak # 0 THEN blk.fluxPeak \div blk.flux
    ELSE settings.burnupPeakingFactor
getBurnupPeakingFactor(settings, blk) ==
    IF settings.burnupPeakingFactor = 0 /\ blk.fluxPeak # 0
    THEN blk.fluxPeak \div blk.flux
    ELSE IF settings.burnupPeakingFactor = 0
         THEN 0
         ELSE settings.burnupPeakingFactor

\* updateMaxDpaParams()
updateMaxDpaParams(cp, bs) ==
    LET maxDpa == getMaxBlockParam(bs, "detailedDpaPeak", FuelBlocks)
        maxGridDose == getMaxBlockParam(bs, "detailedDpaPeak", GridPlateBlocks)
    IN [cp EXCEPT !.maxdetailedDpaPeak = maxDpa, !.maxDPA = maxDpa,
                  !.maxGridDpa = maxGridDose]

\* the dpa rate updateFluenceAndDpa integrates: the one stored on the block
RateFromCurrentFlux(settings, b, blk) ==
    computeDpaRate(blk.mgFlux, getDpaXs(settings, b).value).value
StoredRate(settings, b, blk) == blk.detailedDpaRate

\* b.p.x = b.p.x + increment
Overwritten(old, increment) == increment
Accumulated(old, increment) == old + increment

\* if peakRate: a peak burnup rate of None or of 0 counts as not found
PeakRateFoundUnlessNone(peakRate) == peakRate # None
PeakRateFound(peakRate) == peakRate # None /\ peakRate # <<0>>

\* the body of updateDpaRate's loop for one block
UpdateBlockDpaRate(settings, blk, xs) ==
    LET dpaPerSecond == computeDpaRate(blk.mgFlux, xs)
    IN IF dpaPerSecond.raised
       THEN Raises(dpaPerSecond.value)
       ELSE Returns([blk EXCEPT
                !.detailedDpaPeakRate =
                    dpaPerSecond.value * getBurnupPeakingFactor(settings, blk),
                !.detailedDpaRate = dpaPerSecond.value])

\* for b in blockList of updateDpaRate; stops at the first block that raises
RECURSIVE UpdateDpaRateLoop(_, _, _, _)
UpdateDpaRateLoop(settings, bs, blockList, i) ==
    IF i > Len(blockList)
    THEN [raised |-> FALSE, bs |-> bs]
    ELSE LET b == blockList[i]
             xs == getDpaXs(settings, b)
             out == IF xs.raised THEN xs
                    ELSE UpdateBlockDpaRate(settings, bs[b], xs.value)
         IN IF out.raised
            THEN [raised |-> TRUE, bs |-> bs]
            ELSE UpdateDpaRateLoop(settings, [bs EXCEPT ![b] = out.value],
                                   blockList, i + 1)

AllBlocks == <<1, 2, 3, 4>>

\* the body of updateFluenceAndDpa's loop for one block
UpdateBlockFluenceAndDpa(settings, b, blk, stepTimeInSeconds) ==
    LET newDPA == StoredRate(settings, b, blk) * stepTimeInSeconds
        newDPAPeak == blk.detailedDpaPeakRate * stepTimeInSeconds
        fastFluencePeak ==
            Accumulated(blk.fastFluencePeak,
                        blk.fluxPeak * stepTimeInSeconds * blk.fastFluxFr)
        PointsDpa(dpa, rate) ==
            IF rate = None THEN dpa
            ELSE LET zeroed == IF dpa = None THEN SixOf(0) ELSE dpa
                 IN [k \in 1..6 |-> zeroed[k] + rate[k] * stepTimeInSeconds]
        peakRate ==
            IF blk.buRatePeak # 0 THEN <<blk.buRatePeak>>
            ELSE IF blk.buRate # 0
                 THEN <<blk.buRate * getBurnupPeakingFactor(settings, blk)>>
                 ELSE None
    IN [blk EXCEPT
          !.residence = Accumulated(@, stepTimeInSeconds \div SECONDS_PER_DAY),
          !.fluence = Accumulated(@, blk.flux * stepTimeInSeconds),
          !.fastFluence =
              Accumulated(@, blk.flux * stepTimeInSeconds * blk.fastFluxFr),
          !.fastFluencePeak = fastFluencePeak,
          !.newDPA = newDPA,
          !.newDPAPeak = newDPAPeak,
          !.detailedDpa = Accumulated(@, newDPA),
          !.detailedDpaPeak = Accumulated(@, newDPAPeak),
          !.detailedDpaThisCycle = Accumulated(@, newDPA),
          !.pointsCornerDpa = PointsDpa(@, blk.pointsCornerDpaRate),
          !.pointsEdgeDpa = PointsDpa(@, blk.pointsEdgeDpaRate),
          !.dpaPeakFromFluence =
              IF settings.dpaPerFluence # 0
              THEN fastFluencePeak * settings.dpaPerFluence
              ELSE @,
          !.percentBuPeak =
              IF PeakRateFound(peakRate)
              THEN @ + (peakRate[1] * stepTimeInSeconds) \div SECONDS_PER_DAY
              ELSE blk.percentBu * getBurnupPeakingFactor(settings, blk)]

Abs(x) == IF x < 0 THEN -x ELSE x

\* a.getElevationsMatchingParamValue(param, num / den): the elevations, from
\* the bottom up, at which the assembly's axial profile of the parameter,
\* linear between block midpoints, takes the value
RECURSIVE ElevationsFrom(_, _, _, _, _, _)
ElevationsFrom(bs, ab, param, num, den, i) ==
    IF i > Len(ab)
    THEN <<>>
    ELSE LET z == BlockCenter[ab[i]]
             s == bs[ab[i]][param] * den - num
             here == IF s = 0 THEN <<z>> ELSE <<>>
             above ==
                 IF i = Len(ab) THEN <<>>
                 ELSE LET zUp == BlockCenter[ab[i + 1]]
                          sUp == bs[ab[i + 1]][param] * den - num
                      IN IF (s < 0 /\ sUp > 0) \/ (s > 0 /\ sUp < 0)
                         THEN <<z + (Abs(s) * (zUp - z)) \div Abs(sUp - s)>>
                         ELSE <<>>
         IN here \o above \o ElevationsFrom(bs, ab, param, num, den, i + 1)
getElevationsMatchingParamValue(bs, a, param, num, den) ==
    ElevationsFrom(bs, AssemBlocks[a], param, num, den, 1)

\* a.getMaxParam(param)
getMaxParam(bs, a, param) == MaxOf({bs[b][param] : b \in Range(AssemBlocks[a])})

\* the loop of updateCycleDoseParams that finds the peak dose assembly
RECURSIVE PeakDoseLoop(_, _, _)
PeakDoseLoop(bs, i, acc) ==
    IF i > Len(CoreAssemblies)
    THEN acc
    ELSE LET a == CoreAssemblies[i]
         IN IF getMaxParam(bs, a, "detailedDpaThisCycle") > acc.maxDetailedDpaThisCycle
            THEN PeakDoseLoop(bs, i + 1,
                   [maxDetailedDpaThisCycle |-> getMaxParam(bs, a, "detailedDpaThisCycle"),
                    peakDoseAssem |-> a])
            ELSE PeakDoseLoop(bs, i + 1, acc)

\* if timeNode <= 0: return
PastFirstNodeOrAtIt(timeNode) == timeNode >= 0
PastFirstNode(timeNode) == timeNode > 0

\* if len(doseHalfMaxHeights) != 2: warn, else: set the width
WidthOrZero(old, heights) ==
    IF Len(heights) # 2 THEN 0 ELSE heights[2] - heights[1]
WidthOrUnchanged(old, heights) ==
    IF Len(heights) # 2 THEN old ELSE heights[2] - heights[1]

\* if len(aclpLocations) != 2: warn, else: set the elevation
UpperOrUnchanged(old, locations) ==
    IF Len(locations) # 2 THEN old ELSE locations[2]

\* sum(s[:n])
RECURSIVE SumSeq(_, _)
SumSeq(s, n) ==
    IF n <= 0 THEN 0
    ELSE IF n > Len(s) THEN SumSeq(s, Len(s))
    ELSE s[n] + SumSeq(s, n - 1)

\* the parameter whose axial profile locates the ACLP elevations
AclpProfileParamCumulative == "detailedDpa"
AclpProfileParam == "detailedDpaThisCycle"

\* updateCycleDoseParams()
updateCycleDoseParams(settings, cp, bs) ==
    IF ~PastFirstNode(cp.timeNode)
    THEN cp
    ELSE LET daysIntoCycle == SumSeq(StepLengths, cp.timeNode)
             peak == PeakDoseLoop(bs, 1, [maxDetailedDpaThisCycle |-> 0,
                                          peakDoseAssem |-> NoAssem])
             withMax == [cp EXCEPT !.maxDetailedDpaThisCycle =
                                        peak.maxDetailedDpaThisCycle]
             a == peak.peakDoseAssem
         IN IF a = NoAssem
            THEN withMax
            ELSE [withMax EXCEPT
                    !.dpaFullWidthHalfMax =
                        WidthOrUnchanged(@, getElevationsMatchingParamValue(
                            bs, a, "detailedDpaThisCycle",
                            peak.maxDetailedDpaThisCycle, 2)),
                    !.elevationOfACLP3Cycles =
                        UpperOrUnchanged(@, getElevationsMatchingParamValue(
                            bs, a, AclpProfileParam,
                            settings.aclpDoseLimit * daysIntoCycle, 3 * CycleLength)),
                    !.elevationOfACLP7Cycles =
                        UpperOrUnchanged(@, getElevationsMatchingParamValue(
                            bs, a, AclpProfileParam,
                            settings.aclpDoseLimit * daysIntoCycle, 7 * CycleLength))]

\* core.getAssemblies(Flags.FUEL)
FuelAssembliesAndOthers == <<"A1", "A2">>
FuelAssemblies == <<"A1">>

\* a.getParamValuesAtZ(param, z, fillValue="extrapolate"): the profile through
\* the block midpoints, linear between them and continued beyond the ends
ParamAtZ(bs, a, param, z) ==
    LET ab == AssemBlocks[a]
        below == {i \in 1..(Len(ab) - 1) : BlockCenter[ab[i]] <= z}
        i == IF below = {} THEN 1 ELSE MaxOf(below)
    IN IF Len(ab) = 1
       THEN bs[ab[1]][param]
       ELSE bs[ab[i]][param]
            + ((bs[ab[i + 1]][param] - bs[ab[i]][param]) * (z - BlockCenter[ab[i]]))
              \div (BlockCenter[ab[i + 1]] - BlockCenter[ab[i]])

\* scipy.integrate.quad of the profile from bottom to top
RECURSIVE Integral(_, _, _, _, _)
Integral(bs, a, param, bottom, top) ==
    IF bottom >= top THEN 0
    ELSE (ParamAtZ(bs, a, param, bottom) + ParamAtZ(bs, a, param, bottom + 1)) \div 2
         + Integral(bs, a, param, bottom + 1, top)

\* the loop of _calcLoadPadDose over the fuel assemblies
RECURSIVE LoadPadLoop(_, _, _, _)
LoadPadLoop(settings, bs, i, acc) ==
    IF i > Len(FuelAssemblies)
    THEN acc
    ELSE LET a == FuelAssemblies[i]
             loadPadBottom == settings.loadPadElevation
             loadPadTop == loadPadBottom + settings.loadPadLength
             peakDose == MaxOf({ParamAtZ(bs, a, "detailedDpaPeak", z) :
                                   z \in loadPadBottom..loadPadTop})
             avgDose == Integral(bs, a, "detailedDpa", loadPadBottom, loadPadTop)
                        \div settings.loadPadLength
             peakPeak == IF peakDose > acc.peakPeak[1]
                         THEN <<peakDose, a>> ELSE acc.peakPeak
             peakAvg == IF avgDose > acc.peakAvg[1]
                        THEN <<avgDose, a>> ELSE acc.peakAvg
         IN LoadPadLoop(settings, bs, i + 1, [peakPeak |-> peakPeak, peakAvg |-> peakAvg])

\* _calcLoadPadDose(): the (value, assembly) pairs, or None for both
calcLoadPadDose(settings, bs) ==
    IF settings.loadPadElevation = 0 \/ settings.loadPadLength = 0
    THEN [peakPeak |-> None, peakAvg |-> None]
    ELSE LoadPadLoop(settings, bs, 1,
                     [peakPeak |-> <<0, NoAssem>>, peakAvg |-> <<0, NoAssem>>])

\* updateLoadpadDose(): the core parameters it leaves
updateLoadpadDose(settings, cp, bs) ==
    LET dose == calcLoadPadDose(settings, bs)
    IN IF dose.peakPeak = None
       THEN cp
       ELSE [cp EXCEPT !.loadPadDpaAvg = dose.peakAvg[1],
                       !.loadPadDpaPeak = dose.peakPeak[1]]

\* the assemblies named in the summary updateLoadpadDose logs, if it logs one
LoadPadSummary(settings, bs, before) ==
    LET dose == calcLoadPadDose(settings, bs)
    IN IF dose.peakPeak = None
       THEN before
       ELSE [peakAssem |-> dose.peakPeak[2], avgAssem |-> dose.peakAvg[2]]

RECURSIVE ApplyToBlocks(_, _, _, _, _)
ApplyToBlocks(settings, bs, blockList, stepTimeInSeconds, i) ==
    IF i > Len(blockList)
    THEN bs
    ELSE LET b == blockList[i]
         IN ApplyToBlocks(settings,
                [bs EXCEPT ![b] = UpdateBlockFluenceAndDpa(settings, b, bs[b],
                                                           stepTimeInSeconds)],
                blockList, stepTimeInSeconds, i + 1)

\* inputs of updateFluenceAndDpa
StepTimes == {SECONDS_PER_DAY, 2 * SECONDS_PER_DAY}
\* doseLast before any call: rateError tells whether the most recent
\* updateDpaRate raised, newDpaSum[b] is the sum of the newDPA of block b
\* of the calls of updateFluenceAndDpa since the last interactBOC
NoDoseCall ==
    [n |-> 0, stepTimeInSeconds |-> 0, blockList |-> <<>>, sinceBOC |-> FALSE,
     rateError |-> FALSE, loadPadSummary |-> None,
     newDpaSum |-> [b \in BlockIds |-> 0]]
BlockLists == {<<>>, <<4>>}

DoseInit ==
    /\ doseCs \in DoseSettings
    /\ blocks = [b \in BlockIds |-> NewBlock(b)]
    /\ assems = [a \in AssemIds |-> [daysSinceLastMove |-> 0]]
    /\ coreP = NewCoreP
    /\ doseLast = NoDoseCall
    /\ iface = [bocKeff |-> None]
    /\ opPhase = Unused
    /\ GeomUnused /\ DpaUnused /\ RxUnused /\ BalUnused

DoseFrame == UNCHANGED <<geomVars, dpaVars, rxVars, balVars, doseCs, iface>>

\* the flux solve writes the block fluxes
mapFluxResults(shape) ==
    /\ blocks' = [b \in BlockIds |->
                    [blocks[b] EXCEPT !.flux = shape[b].flux,
                                      !.fluxPeak = shape[b].fluxPeak,
                                      !.mgFlux = <<shape[b].flux>>]]
    /\ UNCHANGED <<assems, coreP, doseLast>>
    /\ DoseFrame

\* the operator moves to the next time node of the cycle
advanceTimeNode ==
    /\ coreP.timeNode < Len(StepLengths)
    /\ coreP' = [coreP EXCEPT !.timeNode = @ + 1]
    /\ UNCHANGED <<blocks, assems, doseLast>>
    /\ DoseFrame

\* for b in self.r.core.getBlocks(), in interactBOC
ResetAtBOCWithDose(blk) ==
    [blk EXCEPT !.detailedDpaThisCycle = 0, !.newDPA = 0, !.detailedDpa = 0]
ResetAtBOC(blk) == [blk EXCEPT !.detailedDpaThisCycle = 0, !.newDPA = 0]

\* interactBOC(cycle), called by the operator at time node 0 of a cycle
interactBOC ==
    /\ coreP' = [coreP EXCEPT !.timeNode = 0, !.rxSwing = 0,
                              !.maxDetailedDpaThisCycle = 0,
                              !.dpaFullWidthHalfMax = 0,
                              !.elevationOfACLP3Cycles = 0,
                              !.elevationOfACLP7Cycles = 0]
    /\ blocks' = [b \in BlockIds |-> ResetAtBOC(blocks[b])]
    /\ doseLast' = [doseLast EXCEPT !.sinceBOC = TRUE,
                                    !.newDpaSum = [b \in BlockIds |-> 0]]
    /\ UNCHANGED assems
    /\ DoseFrame

\* updateDpaRate(blockList=None); peakGridDpaAt60Years is carried in units of
\* 1e-12 dpa year / s, so that units.SECONDS_PER_YEAR is the unit
updateDpaRate ==
    /\ LET out == UpdateDpaRateLoop(doseCs, blocks, AllBlocks, 1)
       IN /\ blocks' = out.bs
          /\ coreP' =
                IF out.raised
                THEN coreP
                ELSE updateMaxDpaParams(
                         [coreP EXCEPT !.peakGridDpaAt60Years =
                              getMaxBlockParam(out.bs, "detailedDpaPeakRate",
                                               GridPlateBlocks) * 60],
                         out.bs)
          /\ doseLast' = [doseLast EXCEPT !.rateError = out.raised]
    /\ UNCHANGED assems
    /\ DoseFrame

\* blockList = blockList or self.r.core.getBlocks()
BlocksToUpdateAsGiven(blockList) == blockList
BlocksToUpdate(blockList) == IF blockList = <<>> THEN AllBlocks ELSE blockList

\* updateFluenceAndDpa(stepTimeInSeconds, blockList)
updateFluenceAndDpa(stepTimeInSeconds, blockList) ==
    /\ doseLast.n < MaxDoseCalls
    /\ LET list == BlocksToUpdate(blockList)
           bs == ApplyToBlocks(doseCs, blocks, list, stepTimeInSeconds, 1)
       IN /\ blocks' = bs
          /\ assems' = [a \in AssemIds |->
                          [assems[a] EXCEPT !.daysSinceLastMove =
                               @ + stepTimeInSeconds \div SECONDS_PER_DAY]]
          /\ coreP' = updateLoadpadDose(doseCs,
                          updateCycleDoseParams(doseCs,
                              updateMaxDpaParams(coreP, bs), bs), bs)
    /\ doseLast' = [n |-> doseLast.n + 1,
                    stepTimeInSeconds |-> stepTimeInSeconds,
                    blockList |-> blockList,
                    sinceBOC |-> doseLast.sinceBOC /\ ~PastFirstNode(coreP.timeNode),
                    rateError |-> doseLast.rateError,
                    newDpaSum |->
                        [b \in BlockIds |->
                            IF blockList = <<>> \/ b \in Range(blockList)
                            THEN doseLast.newDpaSum[b] + blocks'[b].newDPA
                            ELSE doseLast.newDpaSum[b]],
                    loadPadSummary |->
                        LoadPadSummary(doseCs, blocks', doseLast.loadPadSummary)]
    /\ DoseFrame

DoseNext ==
    \/ (\E shape \in FluxShapes : mapFluxResults(shape)) /\ UNCHANGED opPhase
    \/ advanceTimeNode /\ UNCHANGED opPhase
    \/ interactBOC /\ UNCHANGED opPhase
    \/ updateDpaRate /\ UNCHANGED opPhase
    \/ (\E stepTimeInSeconds \in StepTimes, blockList \in BlockLists :
          updateFluenceAndDpa(stepTimeInSeconds, blockList)) /\ UNCHANGED opPhase

DoseSpec == DoseInit /\ [][DoseNext]_doseVars

\* the dpa rates alone, under every setting of the cross section sets: the
\* caller solves the flux, then updates the rates
RateInit ==
    /\ doseCs \in DpaXsSettings
    /\ blocks = [b \in BlockIds |-> NewBlock(b)]
    /\ assems = [a \in AssemIds |-> [daysSinceLastMove |-> 0]]
    /\ coreP = NewCoreP
    /\ doseLast = NoDoseCall
    /\ iface = [bocKeff |-> None]
    /\ opPhase = "start"
    /\ GeomUnused /\ DpaUnused /\ RxUnused /\ BalUnused

\* the load pad dose summary: a core loaded from the database of an earlier
\* run, with the settings of the load pad elevation and length. The pad lies
\* between the midpoints of the two upper blocks of the fuel assembly, so the
\* largest of the sampled profile values is at one of its ends.
LoadPadSettings ==
    {[NoPeakingSettings EXCEPT !.loadPadElevation = e, !.loadPadLength = l] :
        e \in {0, 8}, l \in {0, 2}} \ {NoPeakingSettings}

PadInit ==
    /\ doseCs \in LoadPadSettings
    /\ blocks = [b \in BlockIds |-> NewBlock(b)]
    /\ assems = [a \in AssemIds |-> [daysSinceLastMove |-> 0]]
    /\ coreP = [NewCoreP EXCEPT !.loadPadDpaAvg = 5, !.loadPadDpaPeak = 7]
    /\ doseLast = NoDoseCall
    /\ iface = [bocKeff |-> None]
    /\ opPhase = Unused
    /\ GeomUnused /\ DpaUnused /\ RxUnused /\ BalUnused

PadSpec == PadInit /\ [][DoseNext]_doseVars

RateNext ==
    \/ (\E shape \in FluxShapes : mapFluxResults(shape)) /\ opPhase' = "solved"
    \/ opPhase = "solved" /\ updateDpaRate /\ opPhase' = "rated"

RateSpec == RateInit /\ [][RateNext]_<<doseVars, opPhase>>

\* this step is a call of updateFluenceAndDpa
DoseUpdateStep == doseLast'.n = doseLast.n + 1
\* the blocks a call with this blockList processes
Processed(blockList) == IF blockList = <<>> THEN BlockIds ELSE Range(blockList)
StepDays == doseLast'.stepTimeInSeconds \div SECONDS_PER_DAY

\* C11: every call updateFluenceAndDpa(dt) adds to each processed block's
\* detailedDpa and detailedDpaThisCycle exactly dt times the detailedDpaRate
\* that was stored on the block before the call, and dt times the stored
\* detailedDpaPeakRate to detailedDpaPeak, whatever the block's flux is now;
\* the call leaves the stored rates as they are.
C11_DpaFromStoredRate ==
    [][DoseUpdateStep =>
        \A b \in Processed(doseLast'.blockList) :
            LET dt == doseLast'.stepTimeInSeconds
            IN /\ blocks'[b].detailedDpa =
                      blocks[b].detailedDpa + dt * blocks[b].detailedDpaRate
               /\ blocks'[b].detailedDpaThisCycle =
                      blocks[b].detailedDpaThisCycle + dt * blocks[b].detailedDpaRate
               /\ blocks'[b].detailedDpaPeak =
                      blocks[b].detailedDpaPeak + dt * blocks[b].detailedDpaPeakRate
               /\ blocks'[b].detailedDpaRate = blocks[b].detailedDpaRate
               /\ blocks'[b].detailedDpaPeakRate = blocks[b].detailedDpaPeakRate
      ]_doseVars

\* block 2 took one day of the rate stored from a flux of 3 although its flux
\* is 1 by the time of the call
C11_Witness ==
    /\ doseLast.n = 1
    /\ doseLast.blockList = <<>>
    /\ doseLast.stepTimeInSeconds = SECONDS_PER_DAY
    /\ blocks[2].flux = 1
    /\ blocks[2].detailedDpaRate = 30
    /\ blocks[2].newDPA = 30 * SECONDS_PER_DAY
    /\ blocks[2].detailedDpa = 30 * SECONDS_PER_DAY

PolicyPeaking(b) ==
    IF doseCs.burnupPeakingFactor # 0 THEN doseCs.burnupPeakingFactor
    ELSE IF blocks[b].fluxPeak # 0 THEN blocks[b].fluxPeak \div blocks[b].flux
    ELSE 0

\* C17: getBurnupPeakingFactor returns the user's burnupPeakingFactor when it
\* is non-zero, whatever the block's fluxPeak; else fluxPeak / flux when the
\* block has a non-zero fluxPeak; else 0.  The returned factor is seen in
\* the percentBuPeak that updateFluenceAndDpa writes on a block without
\* burnup rates (percentBu times the factor).
C17_PeakingFactorPolicy ==
    [][DoseUpdateStep =>
        \A b \in Processed(doseLast'.blockList) :
            (blocks[b].buRatePeak = 0 /\ blocks[b].buRate = 0)
            => blocks'[b].percentBuPeak = blocks[b].percentBu * PolicyPeaking(b)
      ]_doseVars

\* the user's factor 3 was applied to block 3 although its fluxPeak is set
C17_Witness ==
    /\ doseLast.n = 1
    /\ doseCs.burnupPeakingFactor = 3
    /\ blocks[3].fluxPeak = 2
    /\ blocks[3].fluence > 0
    /\ blocks[3].percentBuPeak = 15

CycleDoseParams(cp) ==
    <<cp.maxDetailedDpaThisCycle, cp.dpaFullWidthHalfMax,
      cp.elevationOfACLP3Cycles, cp.elevationOfACLP7Cycles>>

\* C19: a call of updateFluenceAndDpa, and so of updateCycleDoseParams, at a
\* time node <= 0 changes none of maxDetailedDpaThisCycle,
\* dpaFullWidthHalfMax, elevationOfACLP3Cycles and elevationOfACLP7Cycles,
\* and from interactBOC until the first dose update at a time node > 0 all
\* four are zero.
C19_NoCycleSummaryAtFirstNode ==
    /\ [](doseLast.sinceBOC => CycleDoseParams(coreP) = <<0, 0, 0, 0>>)
    /\ [][(DoseUpdateStep /\ coreP.timeNode <= 0)
            => CycleDoseParams(coreP') = CycleDoseParams(coreP)]_doseVars

\* dose was accrued in a call at time node 0 after interactBOC, and the four
\* summaries are still zero
C19_Witness ==
    /\ doseLast.sinceBOC
    /\ doseLast.n = 2
    /\ coreP.timeNode = 0
    /\ blocks[2].detailedDpaThisCycle > 0
    /\ blocks[2].detailedDpa > blocks[2].detailedDpaThisCycle
    /\ CycleDoseParams(coreP) = <<0, 0, 0, 0>>

\* the assembly with the largest dose of the cycle, and the elevations at
\* which its dose profile crosses num / den
PeakDoseAssem(bs) ==
    PeakDoseLoop(bs, 1, [maxDetailedDpaThisCycle |-> 0,
                         peakDoseAssem |-> NoAssem]).peakDoseAssem
PeakDose(bs) == getMaxParam(bs, PeakDoseAssem(bs), "detailedDpaThisCycle")
CrossingsOf(bs, num, den) ==
    getElevationsMatchingParamValue(bs, PeakDoseAssem(bs), "detailedDpaThisCycle",
                                    num, den)
HalfMaxCrossings(bs) == CrossingsOf(bs, PeakDose(bs), 2)
AclpCrossings(cp, bs, cycles) ==
    CrossingsOf(bs, doseCs.aclpDoseLimit * SumSeq(StepLengths, cp.timeNode),
                cycles * CycleLength)
\* this step is a dose update past the first time node that finds a peak
\* dose assembly
CycleSummaryStep ==
    /\ DoseUpdateStep
    /\ coreP.timeNode > 0
    /\ PeakDoseAssem(blocks') # NoAssem

\* C20 as stated: when the number of crossings is not two, the metric is at
\* its beginning-of-cycle reset value 0 after the call.
C20_AnomalyLeavesResetValue ==
    [][CycleSummaryStep =>
        /\ Len(HalfMaxCrossings(blocks')) # 2 => coreP'.dpaFullWidthHalfMax = 0
        /\ Len(AclpCrossings(coreP', blocks', 3)) # 2
           => coreP'.elevationOfACLP3Cycles = 0
        /\ Len(AclpCrossings(coreP', blocks', 7)) # 2
           => coreP'.elevationOfACLP7Cycles = 0
      ]_doseVars

\* C20 amended: when the number of crossings is not two, the call leaves the
\* metric as it was before the call, so a value computed at an earlier time
\* node of the cycle stays; with exactly two crossings the metric is set from
\* them.
C20_AnomalyLeavesMetricUnchanged ==
    [][CycleSummaryStep =>
        /\ IF Len(HalfMaxCrossings(blocks')) # 2
           THEN coreP'.dpaFullWidthHalfMax = coreP.dpaFullWidthHalfMax
           ELSE coreP'.dpaFullWidthHalfMax =
                    HalfMaxCrossings(blocks')[2] - HalfMaxCrossings(blocks')[1]
        /\ IF Len(AclpCrossings(coreP', blocks', 3)) # 2
           THEN coreP'.elevationOfACLP3Cycles = coreP.elevationOfACLP3Cycles
           ELSE coreP'.elevationOfACLP3Cycles = AclpCrossings(coreP', blocks', 3)[2]
        /\ IF Len(AclpCrossings(coreP', blocks', 7)) # 2
           THEN coreP'.elevationOfACLP7Cycles = coreP.elevationOfACLP7Cycles
           ELSE coreP'.elevationOfACLP7Cycles = AclpCrossings(coreP', blocks', 7)[2]
      ]_doseVars

\* after the second call the dose profile of the peak assembly crosses its
\* half maximum once only, and the width found by the first call is still
\* there
C20_Witness ==
    /\ doseLast.n = 2
    /\ coreP.timeNode > 0
    /\ PeakDoseAssem(blocks) = "A1"
    /\ Len(HalfMaxCrossings(blocks)) = 1
    /\ coreP.dpaFullWidthHalfMax > 0
    /\ coreP.maxDetailedDpaThisCycle = PeakDose(blocks)

\* the elevations at which the cumulative dose (detailedDpa) profile of the
\* peak dose assembly crosses the prorated ACLP limit
CumulativeAclpCrossings(cp, bs, cycles) ==
    getElevationsMatchingParamValue(bs, PeakDoseAssem(bs), "detailedDpa",
        doseCs.aclpDoseLimit * SumSeq(StepLengths, cp.timeNode),
        cycles * CycleLength)

\* C21 as stated: elevationOfACLP3Cycles (resp. 7) is set from the pair of
\* elevations at which the cumulative dose detailedDpa of the peak dose
\* assembly crosses aclpDoseLimit / 3 (resp. / 7) prorated by
\* daysIntoCycle / cycleLength, and is left alone without such a pair.
C21_AclpOnCumulativeDose ==
    [][CycleSummaryStep =>
        /\ IF Len(CumulativeAclpCrossings(coreP', blocks', 3)) = 2
           THEN coreP'.elevationOfACLP3Cycles =
                    CumulativeAclpCrossings(coreP', blocks', 3)[2]
           ELSE coreP'.elevationOfACLP3Cycles = coreP.elevationOfACLP3Cycles
        /\ IF Len(CumulativeAclpCrossings(coreP', blocks', 7)) = 2
           THEN coreP'.elevationOfACLP7Cycles =
                    CumulativeAclpCrossings(coreP', blocks', 7)[2]
           ELSE coreP'.elevationOfACLP7Cycles = coreP.elevationOfACLP7Cycles
      ]_doseVars

\* C21 amended: the ACLP elevations are located on the profile of the dose
\* accrued in the current cycle (detailedDpaThisCycle) of the peak dose
\* assembly: when that profile crosses the prorated limit at exactly two
\* elevations the upper one becomes elevationOfACLP3Cycles (resp. 7),
\* whatever the cumulative dose profile is.
C21_AclpOnDoseOfThisCycle ==
    [][CycleSummaryStep =>
        /\ Len(AclpCrossings(coreP', blocks', 3)) = 2
           => coreP'.elevationOfACLP3Cycles = AclpCrossings(coreP', blocks', 3)[2]
        /\ Len(AclpCrossings(coreP', blocks', 7)) = 2
           => coreP'.elevationOfACLP7Cycles = AclpCrossings(coreP', blocks', 7)[2]
      ]_doseVars

\* dose of an earlier cycle makes the cumulative profile differ from the one
\* of this cycle, and the elevation is the upper crossing of the latter
C21_Witness ==
    /\ doseLast.n = 2
    /\ coreP.timeNode > 0
    /\ blocks[2].detailedDpaThisCycle > 0
    /\ blocks[2].detailedDpa > blocks[2].detailedDpaThisCycle
    /\ Len(AclpCrossings(coreP, blocks, 3)) = 2
    /\ CumulativeAclpCrossings(coreP, blocks, 3) # AclpCrossings(coreP, blocks, 3)
    /\ coreP.elevationOfACLP3Cycles = AclpCrossings(coreP, blocks, 3)[2]
    /\ coreP.elevationOfACLP3Cycles > 0

(***************************************************************************)
(* Part 5: checkEnergyBalance.  Powers in watts are carried in units of    *)
(* 10^WATT_UNIT_EXP W and powers in MW in units of 10^-MW_UNIT_DECIMALS    *)
(* MW, so that 100 MW, 100.0009 MW and 100.2 MW are 1000000, 1000009 and   *)
(* 1002000.                                                                *)
(***************************************************************************)
MaxPowerBlocks == 2
WATT_UNIT_EXP == 2
MW_UNIT_DECIMALS == 4
WATTS_PER_MW_EXP == 6
\* _ENERGY_BALANCE_REL_TOL = 1e-5, as its inverse
ENERGY_BALANCE_REL_TOL_INVERSE == 100000

\* x / units.WATTS_PER_MW
InMW(watts) == watts \div (10 ^ (WATTS_PER_MW_EXP - WATT_UNIT_EXP - MW_UNIT_DECIMALS))

\* core.calcTotalParam("power", generationNum=2): the sum of the block powers
calcTotalParam(blockPowers) == SumSeq(blockPowers, Len(blockPowers))

\* math.isclose(a, b, rel_tol): abs(a - b) <= rel_tol * abs(b) or
\* abs(a - b) <= rel_tol * abs(a), with no absolute tolerance. For the whole
\* numbers a - b of the model, diff <= x / 10^5 is diff <= floor(x / 10^5).
IsCloseExclusive(a, b) ==
    \/ Abs(a - b) <= (Abs(b) - 1) \div ENERGY_BALANCE_REL_TOL_INVERSE
    \/ Abs(a - b) <= (Abs(a) - 1) \div ENERGY_BALANCE_REL_TOL_INVERSE
IsClose(a, b) ==
    \/ Abs(a - b) <= Abs(b) \div ENERGY_BALANCE_REL_TOL_INVERSE
    \/ Abs(a - b) <= Abs(a) \div ENERGY_BALANCE_REL_TOL_INVERSE

powerGenerated(call) == InMW(calcTotalParam(call.blockPowers))
\* core.p.power is the power after core.setPowerIfNecessary()
specifiedPower(call) == InMW(call.power) \div call.powerMultiplier

checkEnergyBalance(call) ==
    IF ~IsClose(powerGenerated(call), specifiedPower(call))
    THEN Raises("ValueError")
    ELSE Returns(None)

\* a third of a core is modelled with powerMultiplier 3; the core powers are
\* multiples of 3 so that the specified power is a whole number of units
PowerMultipliers == {1, 3}
CorePowers == {3000000, 2999970}
PowerDeviations == {-11, -10, 0, 9, 10, 11, 30, 2000}
FirstBlockPowers == {500000, 1500000}
\* the powers of the blocks of the core: the last one carries the deviation
BlockPowers ==
    {Append(s, q + d) : s \in SeqsUpTo(FirstBlockPowers, MaxPowerBlocks - 1),
                        q \in FirstBlockPowers, d \in PowerDeviations}

BalInit ==
    /\ balCall \in [blockPowers : BlockPowers,
                    power : CorePowers,
                    powerMultiplier : PowerMultipliers,
                    done : {FALSE}, result : {Returns(None)}]
    /\ GeomUnused /\ DpaUnused /\ RxUnused /\ DoseUnused

checkEnergyBalanceCall ==
    /\ ~balCall.done
    /\ balCall' = [balCall EXCEPT !.done = TRUE,
                                  !.result = checkEnergyBalance(balCall)]
    /\ UNCHANGED <<geomVars, dpaVars, rxVars, doseVars, opPhase>>

BalNext == checkEnergyBalanceCall

BalSpec == BalInit /\ [][BalNext]_balVars

\* the two powers of the call in MW, their difference and the larger magnitude
GeneratedMW == SumSeq(balCall.blockPowers, Len(balCall.blockPowers))
SpecifiedMW == balCall.power \div balCall.powerMultiplier
PowerDifference == Abs(GeneratedMW - SpecifiedMW)
LargerPower ==
    IF Abs(GeneratedMW) >= Abs(SpecifiedMW) THEN Abs(GeneratedMW) ELSE Abs(SpecifiedMW)
\* the relative difference is below, at most, exactly 1e-5 (a difference of
\* 2 MW or more is above it for every power of the model)
RelativeDifferenceBelowTol ==
    PowerDifference < 2 * 10 ^ 4 /\ PowerDifference * 10 ^ 5 < LargerPower
RelativeDifferenceAtMostTol ==
    PowerDifference < 2 * 10 ^ 4 /\ PowerDifference * 10 ^ 5 <= LargerPower
RelativeDifferenceIsTol ==
    PowerDifference < 2 * 10 ^ 4 /\ PowerDifference * 10 ^ 5 = LargerPower

\* C22 as stated: checkEnergyBalance passes when the generated power and
\* the specified power (core power / powerMultiplier) differ by less than
\* 1e-5 relative and raises otherwise, so that a relative difference of
\* exactly 1e-5 raises.
C22_RaisesAtTolerance ==
    balCall.done => (~balCall.result.raised <=> RelativeDifferenceBelowTol)

\* C22 amended: checkEnergyBalance passes when the generated power and the
\* specified power (core power / powerMultiplier) differ by at most 1e-5
\* relative to the larger of the two and raises ValueError otherwise, so
\* that a relative difference of exactly 1e-5 passes.
C22_PassesUpToTolerance ==
    balCall.done =>
        /\ ~balCall.result.raised <=> RelativeDifferenceAtMostTol
        /\ balCall.result.raised => balCall.result.value = "ValueError"

\* a call with 99.999 MW generated in a third of a core whose whole power is
\* 300 MW: the relative difference is exactly 1e-5 and the check passes
C22_Witness ==
    /\ balCall.done
    /\ balCall.powerMultiplier = 3
    /\ SpecifiedMW = 1000000
    /\ GeneratedMW = 999990
    /\ RelativeDifferenceIsTol
    /\ ~balCall.result.raised

\* the set getDpaXs is to choose for a block, and the blocks for which that
\* set is not one of constants.DPA_CROSS_SECTIONS
PolicySetName(b) ==
    IF doseCs.gridPlateDpaXsSet # "" /\ b \in GridPlateBlocks
    THEN doseCs.gridPlateDpaXsSet
    ELSE doseCs.dpaXsSet
BlocksOfUnknownSet == {b \in BlockIds : PolicySetName(b) \notin DpaXsSetNames}
RateWithPolicySet(b) ==
    computeDpaRate(blocks[b].mgFlux, DPA_CROSS_SECTIONS[PolicySetName(b)]).value

\* C23: after updateDpaRate the rate of every block is the one computed with
\* the grid plate set when such a set is configured and the block is a grid
\* plate, and with the default set otherwise; when the set chosen for some
\* block is not a known set the call raises KeyError and no rate is stored
\* for that block.
C23_GridPlateSetForGridPlates ==
    opPhase = "rated" =>
        /\ doseLast.rateError <=> BlocksOfUnknownSet # {}
        /\ \A b \in BlocksOfUnknownSet :
              blocks[b].detailedDpaRate = 0 /\ blocks[b].detailedDpaPeakRate = 0
        /\ ~doseLast.rateError =>
              \A b \in BlockIds : blocks[b].detailedDpaRate = RateWithPolicySet(b)

\* rates have been stored with two different sets: the grid plate block
\* with the grid plate set, a fuel block of the same flux with the default
C23_Witness ==
    /\ opPhase = "rated"
    /\ doseCs.dpaXsSet = "dpa_EBRII_HT9"
    /\ doseCs.gridPlateDpaXsSet = "dpa_EBRII_PE16"
    /\ blocks[1].flux = blocks[4].flux
    /\ blocks[1].detailedDpaRate > 0
    /\ blocks[4].detailedDpaRate = 2 * blocks[1].detailedDpaRate
    /\ ~doseLast.rateError

\* the load pad is configured; the doses of a fuel assembly over it: the
\* larger end of its peak dose profile, and the mean of the two ends of its
\* average dose profile (both linear over the pad)
LoadPadConfigured == doseCs.loadPadElevation # 0 /\ doseCs.loadPadLength # 0
FuelAssemblySet == {a \in AssemIds : \E b \in FuelBlocks : b \in Range(AssemBlocks[a])}
PadTop == doseCs.loadPadElevation + doseCs.loadPadLength
PadPeakDose(bs, a) ==
    MaxOf({ParamAtZ(bs, a, "detailedDpaPeak", doseCs.loadPadElevation),
           ParamAtZ(bs, a, "detailedDpaPeak", PadTop)})
PadAverageDose(bs, a) ==
    (ParamAtZ(bs, a, "detailedDpa", doseCs.loadPadElevation)
        + ParamAtZ(bs, a, "detailedDpa", PadTop)) \div 2

ABS_REACTIVITY_TO_PCM == 100000
\* the keff a flux solve (executer.run()) leaves on the core
SolvedKeffs == {500, 800, 1000, 1250}

\* if self.r.p.timeNode == 0
AtFirstNodeOrLater(timeNode) == timeNode >= 0
AtFirstNode(timeNode) == timeNode = 0

SwingFrame ==
    UNCHANGED <<geomVars, dpaVars, rxVars, balVars, doseCs, blocks, assems, doseLast>>

\* GlobalFluxInterfaceUsingExecuters.interactEveryNode(cycle, node): the
\* executer's run leaves keff, then GlobalFluxInterface.interactEveryNode
interactEveryNode(keff) ==
    /\ coreP' = [coreP EXCEPT !.keff = keff]
    /\ iface' = IF AtFirstNode(coreP.timeNode)
                THEN [iface EXCEPT !.bocKeff = <<keff>>]
                ELSE iface
    /\ SwingFrame

\* GlobalFluxInterfaceUsingExecuters.interactCoupled(iteration)
interactCoupled(keff) ==
    /\ coreP' = [coreP EXCEPT !.keff = keff]
    /\ iface' = IF AtFirstNode(coreP.timeNode)
                THEN [iface EXCEPT !.bocKeff = <<keff>>]
                ELSE iface
    /\ SwingFrame

\* interactEOC(cycle)
interactEOC ==
    /\ coreP' = IF iface.bocKeff # None
                THEN [coreP EXCEPT !.rxSwing =
                         ((coreP.keff - iface.bocKeff[1]) * ABS_REACTIVITY_TO_PCM)
                             \div iface.bocKeff[1]]
                ELSE coreP
    /\ UNCHANGED iface
    /\ SwingFrame

\* a run starts at the beginning of a cycle, or in the middle of one with
\* the core parameters loaded from the database of the run it continues
FreshStart ==
    /\ coreP = NewCoreP
    /\ opPhase = [at |-> "boc", began |-> FALSE, node0Keff |-> None]
RestartInCycle ==
    /\ \E node \in 1..Len(StepLengths) :
          coreP = [NewCoreP EXCEPT !.timeNode = node, !.keff = 1000, !.rxSwing = 7]
    /\ opPhase = [at |-> "solve", began |-> FALSE, node0Keff |-> None]

SwingInit ==
    /\ doseCs = NoPeakingSettings
    /\ blocks = [b \in BlockIds |-> NewBlock(b)]
    /\ assems = [a \in AssemIds |-> [daysSinceLastMove |-> 0]]
    /\ doseLast = NoDoseCall
    /\ iface = [bocKeff |-> None]
    /\ FreshStart \/ RestartInCycle
    /\ GeomUnused /\ DpaUnused /\ RxUnused /\ BalUnused

\* the keff of the last solve at time node 0 of the cycle, after a solve
Node0KeffAfter(keff) == IF coreP.timeNode = 0 THEN <<keff>> ELSE opPhase.node0Keff

SwingNext ==
    \/ /\ opPhase.at = "boc"
       /\ interactBOC
       /\ opPhase' = [at |-> "solve", began |-> TRUE, node0Keff |-> None]
    \/ \E keff \in SolvedKeffs :
          /\ opPhase.at = "solve"
          /\ interactEveryNode(keff)
          /\ opPhase' = [opPhase EXCEPT !.at = "node",
                                        !.node0Keff = Node0KeffAfter(keff)]
    \/ \E keff \in SolvedKeffs :
          /\ opPhase.at = "node"
          /\ interactCoupled(keff)
          /\ opPhase' = [opPhase EXCEPT !.node0Keff = Node0KeffAfter(keff)]
    \/ /\ opPhase.at = "node"
       /\ advanceTimeNode
       /\ opPhase' = [opPhase EXCEPT !.at = "solve"]
    \/ /\ opPhase.at = "node"
       /\ coreP.timeNode = Len(StepLengths)
       /\ interactEOC
       /\ opPhase' = [opPhase EXCEPT !.at = "boc"]

SwingSpec == SwingInit /\ [][SwingNext]_<<doseVars, opPhase>>

\* the steps of the operator's loop
SwingBocStep == opPhase.at = "boc" /\ opPhase'.at = "solve"
SwingNodeStep == opPhase.at \in {"solve", "node"} /\ opPhase'.at \in {"solve", "node"}
SwingEocStep == opPhase.at = "node" /\ opPhase'.at = "boc"
\* (keff - bocKeff) / bocKeff in pcm
SwingFrom(bocKeff, keff) == ((keff - bocKeff) * 100000) \div bocKeff

\* C25: interactBOC sets rxSwing to 0 and every interactEveryNode and
\* interactCoupled of the cycle leaves it alone; interactEOC sets it to
\* (keff - bocKeff) / bocKeff in pcm, bocKeff being the keff the last flux
\* solve at time node 0 of the same cycle left, and leaves it alone when no
\* keff has been recorded (a run that started in the middle of the cycle).
C25_SwingFromKeffOfFirstNode ==
    [][/\ SwingBocStep => coreP'.rxSwing = 0
       /\ SwingNodeStep => coreP'.rxSwing = coreP.rxSwing
       /\ SwingEocStep =>
            /\ opPhase.began =>
                 /\ coreP.rxSwing = 0
                 /\ opPhase.node0Keff # None
                 /\ coreP'.rxSwing = SwingFrom(opPhase.node0Keff[1], coreP.keff)
            /\ iface.bocKeff = None => coreP'.rxSwing = coreP.rxSwing
            /\ opPhase.began \/ iface.bocKeff = None
      ]_<<doseVars, opPhase>>

\* the end of a cycle whose solve at time node 0 left keff 1.000 and whose
\* last solve left 1.250: a swing of 25000 pcm
C25_Witness ==
    /\ opPhase.at = "boc"
    /\ opPhase.began
    /\ opPhase.node0Keff = <<1000>>
    /\ coreP.timeNode = Len(StepLengths)
    /\ coreP.keff = 1250
    /\ coreP.rxSwing = 25000

\* the model has no fluxPeak on any block and the stored dpa rates are those
\* updateDpaRate computes from the flux the blocks have
NoFluxPeakOnModel == \A b \in BlockIds : blocks[b].fluxPeak = 0
RatesOfThisFlux ==
    \A b \in BlockIds :
        blocks[b].detailedDpaRate = RateFromCurrentFlux(doseCs, b, blocks[b])

\* C26: without a fluxPeak parameter on the model and without a user burnup
\* peaking factor, peak dpa is equal to average dpa: a call of
\* updateFluenceAndDpa that follows updateDpaRate adds to detailedDpaPeak of
\* every block it processes the same increment (newDPAPeak) as it adds to
\* detailedDpa (newDPA).
C26_PeakDpaEqualsAverageDpa ==
    [][DoseUpdateStep /\ doseCs.burnupPeakingFactor = 0
          /\ NoFluxPeakOnModel /\ RatesOfThisFlux
        => \A b \in Processed(doseLast'.blockList) :
              /\ blocks'[b].newDPAPeak = blocks'[b].newDPA
              /\ blocks'[b].detailedDpaPeak - blocks[b].detailedDpaPeak
                    = blocks'[b].detailedDpa - blocks[b].detailedDpa
      ]_doseVars

\* the per-cycle dose of every block is between 0 and its cumulative dose and
\* is the sum of the increments since the last interactBOC; without any
\* such increment newDPA is 0
PerCycleDoseWithinDose ==
    \A b \in BlockIds :
        /\ 0 <= blocks[b].detailedDpaThisCycle
        /\ blocks[b].detailedDpaThisCycle <= blocks[b].detailedDpa
        /\ blocks[b].detailedDpaThisCycle = doseLast.newDpaSum[b]
        /\ doseLast.newDpaSum[b] = 0 => blocks[b].newDPA = 0
\* a step that is no call of updateFluenceAndDpa
OtherStep == doseLast'.n = doseLast.n

\* C27: under every interleaving of interactBOC and updateFluenceAndDpa
\* (and flux solves and rate updates between them), detailedDpaThisCycle of
\* every block stays between 0 and detailedDpa and is the sum of the newDPA
\* added since the most recent interactBOC; interactBOC resets
\* detailedDpaThisCycle and newDPA to 0, and it changes neither detailedDpa
\* nor detailedDpaPeak, which only updateFluenceAndDpa writes.
C27_PerCycleDoseWithinDose ==
    /\ []PerCycleDoseWithinDose
    /\ [][OtherStep =>
            \A b \in BlockIds :
                /\ blocks'[b].detailedDpa = blocks[b].detailedDpa
                /\ blocks'[b].detailedDpaPeak = blocks[b].detailedDpaPeak
                /\ blocks'[b].detailedDpaThisCycle \in
                       {0, blocks[b].detailedDpaThisCycle}
         ]_doseVars

\* dose of an earlier cycle, interactBOC, and dose since: the per-cycle dose
\* is the last increment alone and is below the cumulative dose
C27_Witness ==
    /\ doseLast.n = 2
    /\ doseLast.sinceBOC
    /\ blocks[1].newDPA > 0
    /\ blocks[1].detailedDpaThisCycle = blocks[1].newDPA
    /\ blocks[1].detailedDpa > blocks[1].detailedDpaThisCycle
    /\ blocks[1].detailedDpaPeak > 0

\* C28: a call updateFluenceAndDpa(dt, blockList) changes the parameters of
\* the blocks of blockList only (every block of the core when blockList is
\* empty, each of which gains dt / 86400 days of residence), and it adds
\* dt / 86400 days to daysSinceLastMove of every assembly of the core,
\* whether or not any of the assembly's blocks is in blockList.
C28_BlocksOfListAssembliesOfCore ==
    [][DoseUpdateStep =>
        /\ \A b \in BlockIds \ Processed(doseLast'.blockList) :
              blocks'[b] = blocks[b]
        /\ \A b \in Processed(doseLast'.blockList) :
              blocks'[b].residence = blocks[b].residence + StepDays
        /\ \A a \in AssemIds :
              assems'[a].daysSinceLastMove = assems[a].daysSinceLastMove + StepDays
      ]_doseVars

\* two calls for the grid plate block alone: the fuel assembly has aged by
\* both although none of its blocks has any residence
C28_Witness ==
    /\ doseLast.n = 2
    /\ doseLast.blockList = <<4>>
    /\ blocks[4].residence = assems["A2"].daysSinceLastMove
    /\ \A b \in Range(AssemBlocks["A1"]) : blocks[b].residence = 0
    /\ assems["A1"].daysSinceLastMove = assems["A2"].daysSinceLastMove
    /\ assems["A1"].daysSinceLastMove >= 2
====
